---- MODULE Spec2Model ----
(***************************************************************************)
(* A model of WebVideoCreator (src/index.cjs and the older capture         *)
(* contexts kept in the repository).                                       *)
(*                                                                         *)
(* The program is a set of loosely coupled subsystems, each with its own   *)
(* state.  Every subsystem has its own specification over the variables    *)
(* of the module; the variables of the other subsystems keep their         *)
(* initial value:                                                          *)
(*   SpecSynth    Synthesizer frame buffering (input / endInput / abort)   *)
(*   SpecTimers   in-page CaptureContext: virtual timers and capture loop  *)
(*   SpecMedia    in-page CaptureContext: media scheduling of the loop      *)
(*   SpecLegacy   the earlier CaptureContext the repository also ships      *)
(*   SpecPool     ResourcePool, Browser page pools and Page states, with    *)
(*                tabs that crash, close or time out                        *)
(*   SpecPoolFair the same without faults, every step weakly fair           *)
(*   SpecCapture  a capture with time actions, abort() and frame timeouts   *)
(*   SpecTask     one preprocessor task under the scheduler                 *)
(*   SpecFetch    one call of the in-page fetch helper                      *)
(*   SpecChunks   a ChunkSynthesizer, its chunks and their audios           *)
(*   SpecRequests the request interception of a Page                        *)
(*   SpecLegacyTimers the timers of the earlier CaptureContext              *)
(*   SpecPoolFaults, SpecPoolCreate  the pool with browsers that close and  *)
(*                with browsers and tabs that cannot be created             *)
(*   SpecPack     the packed video_preprocess payload, host to page         *)
(*   SpecPre, SpecPreFair  the Preprocessor's queues and active lists       *)
(*   SpecSynthesize, SpecSynthesizeFair  #synthesize holding its page       *)
(*   SpecStarts   a capture whose page calls start() more than once         *)
(*   SpecFetchFair the fetch helper with its steps weakly fair              *)
(*   SpecSplice   the xfade filters of the final splice of the chunks       *)
(*   SpecOptions  the options Page.startScreencast completes                *)
(*   SpecDownloads download tasks of one URL under the lock of the URL      *)
(*   SpecCanvas   the frames of a VideoCanvas, decoder against seek()       *)
(*                                                                         *)
(* Times are integers (milliseconds); arithmetic is exact, IEEE rounding   *)
(* of the JavaScript doubles is not modelled.                              *)
(***************************************************************************)
EXTENDS Integers, Sequences, FiniteSets, TLC

(***************************************************************************)
(* Bounds of the model.                                                    *)
(***************************************************************************)
\* largest parallelWriteFrames option tried
MaxParallelWrite == 3
\* largest number of frames passed to Synthesizer.input()
MaxFrames == 5

\* virtual timers registered by page code (setTimeout and setInterval together)
MaxTimers == 2
\* dispatched callbacks waiting on the real event loop
MaxRealTasks == 2
\* target frame count given to the earlier capture context
MaxFrameCount == 5
\* ResourcePool options.numBrowserMax and Browser options.numPageMax
numBrowserMax == 2
numPageMax == 2
\* concurrent jobs asking the pool for a page
NumJobs == 5
\* Page objects one browser creates over its life
MaxPageIds == 3
\* tab crashes, tab closes, frame timeouts and failed navigations in one run
MaxFaults == 2
\* performance.now() as far as the preprocessor's clock is followed
MaxTaskClock == 8
\* the page's real clock as far as a fetch with retries is followed
MaxFetchClock == 6
\* chunks input to one ChunkSynthesizer, and audios emitted while they render
MaxChunks == 3
MaxRuntimeAudios == 1
\* small frame counts given to startScreencast without a duration
MaxOptionFrames == 8
\* download tasks created for the same URL
NumDownloads == 3
\* frames of the video a VideoCanvas decodes
MaxVideoFrames == 4

VARIABLES
    \* ---- Synthesizer (src/index.cjs 6591-7310)
    parallelWriteFrames, \* this.parallelWriteFrames
    frameBuffers,        \* #frameBuffers: slots 0..parallelWriteFrames-1
    frameBufferIndex,    \* #frameBufferIndex
    synthFrameCount,     \* _frameCount, frames received by input()
    pipeStream,          \* #pipeStream: "null", "open"
    pipeEnded,           \* the pipe stream fed to the encoder has been end()ed
    written,             \* bytes written to the pipe, as the sequence of frames
    inputs,              \* history: the frames passed to input(), in order
    \* ---- CaptureContext, in the page (src/index.cjs 3780-4740)
    currentTime,         \* this.currentTime, the virtual clock
    frameIndex,          \* this.frameIndex
    frameInterval,       \* this.frameInterval
    readyFlag,           \* this.readyFlag
    startFlag,           \* this.startFlag
    stopFlag,            \* this.stopFlag
    readyCallback,       \* this.readyCallback is set
    intervalCallbacks,   \* this.intervalCallbacks: [id, timestamp, delay]
    timeoutCallbacks,    \* this.timeoutCallbacks: [id, timestamp, delay]
    timerId,             \* this.timerId
    config,              \* this.config
    initDone,            \* the host has called captureCtx.init()
    realClock,           \* performance.____now() - readyTime, real milliseconds
    realTasks,           \* callbacks posted with ____setTimeout(fn, 0), FIFO
    loopPc,              \* where each nextFrame() chain of start() stands
    dispatchMedias,      \* this.dispatchMedias
    mediaWait,           \* per chain and media: the load() or seek() awaited
    elements,            \* media elements of the document not yet converted
    \* ---- host side of the page RPC (Page, src/index.cjs 5404-5471)
    captureCount,        \* calls of ____captureFrame
    skipCount,           \* calls of ____skipFrame
    completedCount,      \* calls of ____screencastCompleted
    \* ---- history of the timer dispatch
    lastBatch,           \* what the latest dispatch posted, in order
    timeoutDispatches,   \* ids of the timeouts dispatched so far, with repetition
    cleared,             \* virtual ids cleared while their callback was posted
    invokedAfterClear,   \* ids whose callback ran after they were cleared
    \* ---- history of the media scheduling
    seekLog,             \* per media: what the current tick did with it
    loadFailed,          \* the medias whose load() has failed
    \* ---- ResourcePool, Browser, Page (src/index.cjs 4870-6580)
    browserCount,        \* browsers the browser pool has created: 1..browserCount
    browserAvail,        \* browser pool: the available browsers, FIFO
    checkMap,            \* ResourcePool.#checkMap: browsers with a deferred release
    pageState,           \* Page.state of every page; "none" before it is created
    pageAvail,           \* per browser, page pool: the available pages, FIFO
    pageLoans,           \* per browser, page pool: the pages on loan
    lockQueue,           \* asyncLock "acquirePage": holder first, then the waiters
    jobPc,               \* per job: idle, queued, holding, done
    jobPage,             \* per job: the page acquirePage() returned
    faults,              \* tab and navigation failures so far
    \* ---- history of the pool
    acquiredState,       \* per job: Page.state when acquirePage() returned
    waited,              \* jobs seen waiting in acquirePage() with both tiers saturated
    \* ---- Page.timeActions (src/index.cjs 5094-5096, 5384-5402)
    timeActions,         \* the keys of Page.timeActions still registered
    taInvoked,           \* history: the keys whose function was invoked, in order
    taLast,              \* history: the last #seekTimeActions call
    abortCalled,         \* history: captureCtx.abort() was called on the running loop
    \* ---- the Page hosting the capture context (src/index.cjs 5161-5471)
    hostState,           \* Page.state of that page
    pageErrors,          \* "error" events it emitted, each forwarded by the synthesizer
    timedOut,            \* history: the timeouts that occurred during the capture
    \* ---- a preprocessor Task and its scheduler (src/index.cjs 610-760, 1560-1615)
    task,                \* the task: options, state, errors, errorTime, and history
    taskNow,             \* performance.now()
    \* ---- the in-page fetch helper (src/index.cjs 4717-4736)
    fetchCall,           \* one call: options, attempt, and the promise of each attempt
    fetchNow,            \* the page's real clock
    \* ---- ChunkSynthesizer (src/index.cjs 7997-8180)
    chunks,              \* this.chunks: duration, frames written, transition, audios
    chunkSynth,          \* its duration, whether start() ran, offsets, audios
    \* ---- Page request interception (src/index.cjs 5565-5620)
    lastRequest,         \* history: the last request handled and what became of it
    \* ---- history of the virtual timers
    issuedIds,           \* the ids setTimeout and setInterval returned, in order
    \* ---- Browser.state (src/index.cjs 6148-6164)
    closedBrowsers,      \* the browsers whose state is CLOSED
    \* ---- the video_preprocess payload (src/index.cjs 2103-2120, 3260-3285)
    packRun,             \* a data object, its packed bytes, and what unpacking gave
    \* ---- the Preprocessor's queues (src/index.cjs 1426-1615)
    pre,                 \* queues, active lists, resume callbacks and task states
    \* ---- SingleVideo.#synthesize on the host (src/index.cjs 7468-7541)
    synthesizePc,        \* "idle", "acquired" (the page is held) or "released"
    \* ---- ChunkSynthesizer._createVideoEncoder (src/index.cjs 8198-8292)
    spliceFilters,       \* the xfade filters of the final splice, once built
    \* ---- the options of Page.startScreencast (src/index.cjs 5161-5193)
    screencastOptions,   \* the options given and the config sent to the page
    \* ---- DownloadTask._downloadFile for one URL (src/index.cjs 1339-1397)
    downloads,           \* the tasks, the lock of the URL, the cached file
    \* ---- VideoCanvas frames (src/index.cjs 2909-2955, 3039-3143)
    canvas               \* frames, the parked request, the decoder's position

synthVars == <<parallelWriteFrames, frameBuffers, frameBufferIndex,
               synthFrameCount, pipeStream, pipeEnded, written, inputs>>

ctxVars == <<currentTime, frameIndex, frameInterval, readyFlag, startFlag,
             stopFlag, readyCallback, intervalCallbacks, timeoutCallbacks,
             timerId, config, initDone, realClock, realTasks, loopPc>>

mediaVars == <<dispatchMedias, mediaWait, elements, seekLog, loadFailed>>

hostVars == <<captureCount, skipCount, completedCount>>

timerHist == <<lastBatch, timeoutDispatches, cleared, invokedAfterClear>>

poolVars == <<browserCount, browserAvail, checkMap, pageState, pageAvail, pageLoans,
              lockQueue, jobPc, jobPage, faults, acquiredState, waited>>

taVars == <<timeActions, taInvoked, taLast>>

\* the state outside the synthesizer, the page and the pool
hostPage == <<hostState, pageErrors, timedOut>>

taskVars == <<task, taskNow>>

fetchVars == <<fetchCall, fetchNow>>

chunkVars == <<chunks, chunkSynth>>

extVars == <<taVars, abortCalled, hostPage, taskVars, fetchVars, chunkVars>>

\* request interception, payload packing, preprocessor queues
\* the final splice
\* and the options of a screencast
lateVars == <<spliceFilters, screencastOptions, downloads, canvas>>

sideVars == <<lastRequest, issuedIds, closedBrowsers, packRun, pre, synthesizePc,
              lateVars>>

vars == <<synthVars, ctxVars, mediaVars, hostVars, timerHist, poolVars, extVars,
          sideVars>>

\* what the page and its capture context leave alone
notPage == <<synthVars, poolVars, extVars, sideVars>>

\* what the synthesizer leaves alone
notSynth == <<ctxVars, mediaVars, hostVars, timerHist, poolVars, extVars, sideVars>>

\* what the resource pool leaves alone
notPool == <<synthVars, ctxVars, mediaVars, hostVars, timerHist, extVars, sideVars>>

(***************************************************************************)
(* Synthesizer: frame buffering in front of the encoder pipe.              *)
(***************************************************************************)
\* the two payloads a frame buffer may carry
FrameBytes == {"a", "b"}

\* an unassigned slot of new Array(parallelWriteFrames)
Hole == [seq |-> 0, data |-> "hole"]

\* Buffer.concat(list): the frames of the list, in list order
BufferConcat(list) == list

\* #frameBuffers as a sequence, slot 0 first
SlotsOf(fb, p) == [i \in 1..p |-> fb[i - 1]]

\* this.#frameBuffers.filter(v => v): every assigned slot, in slot order
FilterAssigned(s) == SelectSeq(s, LAMBDA v : v # Hole)

\* what #drain() writes when frameBufferIndex > 0
DrainData(fb, p, idx) == BufferConcat(FilterAssigned(SlotsOf(fb, p)))

InitSynth ==
    /\ parallelWriteFrames \in 1..MaxParallelWrite
    /\ frameBuffers = [i \in 0..(parallelWriteFrames - 1) |-> Hole]
    /\ frameBufferIndex = 0
    /\ synthFrameCount = 0
    /\ pipeStream = "null"
    /\ pipeEnded = FALSE
    /\ written = <<>>
    /\ inputs = <<>>

\* the subsystem at rest, for the specifications of the other subsystems
IdleSynth ==
    /\ parallelWriteFrames = 1
    /\ frameBuffers = [i \in 0..0 |-> Hole]
    /\ frameBufferIndex = 0
    /\ synthFrameCount = 0
    /\ pipeStream = "null"
    /\ pipeEnded = FALSE
    /\ written = <<>>
    /\ inputs = <<>>

\* Synthesizer.start(): creates the pipe stream the encoder reads
SynthStart ==
    /\ ~pipeEnded
    /\ pipeStream = "null"
    /\ pipeStream' = "open"
    /\ UNCHANGED <<parallelWriteFrames, frameBuffers, frameBufferIndex,
                   synthFrameCount, pipeEnded, written, inputs>>
    /\ UNCHANGED notSynth

\* Synthesizer.input(buffer)
input(data) ==
    /\ ~pipeEnded
    /\ synthFrameCount < MaxFrames
    /\ LET buffer == [seq |-> synthFrameCount + 1, data |-> data]
           fb == [frameBuffers EXCEPT ![frameBufferIndex] = buffer]
           idx == frameBufferIndex + 1
       IN /\ pipeStream' = "open"
          /\ frameBuffers' = fb
          /\ synthFrameCount' = synthFrameCount + 1
          /\ inputs' = Append(inputs, buffer)
          /\ IF idx < parallelWriteFrames
             THEN /\ frameBufferIndex' = idx
                  /\ written' = written
             ELSE /\ written' = written \o BufferConcat(SlotsOf(fb, parallelWriteFrames))
                  /\ frameBufferIndex' = 0
    /\ UNCHANGED <<parallelWriteFrames, pipeEnded>>
    /\ UNCHANGED notSynth

\* #drain(): flush what is buffered and end the pipe
drain ==
    IF pipeStream = "null"
    THEN UNCHANGED <<frameBufferIndex, pipeEnded, pipeStream, written>>
    ELSE /\ written' = IF frameBufferIndex > 0
                       THEN written \o DrainData(frameBuffers, parallelWriteFrames,
                                                 frameBufferIndex)
                       ELSE written
         /\ frameBufferIndex' = 0
         /\ pipeEnded' = TRUE
         /\ pipeStream' = "null"

\* Synthesizer.endInput(): #drain() then #closeEncoder()
endInput ==
    /\ ~pipeEnded
    /\ pipeStream = "open"
    /\ drain
    /\ UNCHANGED <<parallelWriteFrames, frameBuffers, synthFrameCount, inputs>>
    /\ UNCHANGED notSynth

\* Synthesizer.abort(): #drain() then #closeEncoder(true)
SynthAbort ==
    /\ ~pipeEnded
    /\ pipeStream = "open"
    /\ drain
    /\ UNCHANGED <<parallelWriteFrames, frameBuffers, synthFrameCount, inputs>>
    /\ UNCHANGED notSynth

NextSynth ==
    \/ SynthStart
    \/ \E data \in FrameBytes : input(data)
    \/ endInput
    \/ SynthAbort


(***************************************************************************)
(* CaptureContext: the virtual clock, the virtual timers, the capture      *)
(* loop. JavaScript's undefined and NaN are kept apart from the numbers.   *)
(***************************************************************************)
\* the value of a missing argument
Undef == 0 - 1
\* the result of arithmetic on undefined
NaN == 0 - 2

IsNumber(x) == x # Undef /\ x # NaN

\* a + b in JavaScript
JsAdd(a, b) == IF IsNumber(a) /\ IsNumber(b) THEN a + b ELSE NaN

\* a < b in JavaScript: false as soon as one side is not a number
JsLt(a, b) == IsNumber(a) /\ IsNumber(b) /\ a < b

\* the frame rates, durations (ms) and start times (ms) a capture is given
FpsSet == {25, 50}
DurationSet == {20, 60}
StartTimeSet == {0, 40}
\* the delays and periods (ms) page code passes to setTimeout / setInterval
DelaySet == {0, 40}
\* the values of the real clock (ms since ready) the watchdog may read
RealClockSet == {0, 50}
\* ids the real setTimeout / setInterval have returned to page code
RealTimerIds == {1}
\* the nextFrame() chains a page may have
Loops == {1, 2}

\* util.durationToFrameCount(duration, fps) = Math.floor(duration / 1000 * fps)
durationToFrameCount(duration, fps) == (duration * fps) \div 1000

\* CaptureContext.isCapturing()
isCapturing == currentTime >= config.startTime

\* the entries _callTimeoutCallbacks(c) keeps
TimeoutKept(cbs, c) ==
    SelectSeq(cbs, LAMBDA e : JsLt(c, JsAdd(e.timestamp, e.delay)))

\* the entries _callTimeoutCallbacks(c) posts to the real event loop
TimeoutFired(cbs, c) ==
    SelectSeq(cbs, LAMBDA e : ~JsLt(c, JsAdd(e.timestamp, e.delay)))

\* _callIntervalCallbacks(c): the test of one entry
IntervalDue(e, c) == ~JsLt(c, JsAdd(e.timestamp, e.delay))

\* the entries after _callIntervalCallbacks(c): a due entry restarts at c
IntervalAfter(cbs, c) ==
    [i \in DOMAIN cbs |->
        IF IntervalDue(cbs[i], c) THEN [cbs[i] EXCEPT !.timestamp = c] ELSE cbs[i]]

\* the entries _callIntervalCallbacks(c) posts to the real event loop
IntervalFired(cbs, c) == SelectSeq(cbs, LAMBDA e : IntervalDue(e, c))

\* the task ____setTimeout(() => fn(c), 0) of one entry
TaskOf(kind, c, cbs) ==
    [i \in DOMAIN cbs |->
        [kind |-> kind, id |-> cbs[i].id, clock |-> c,
         due |-> JsAdd(cbs[i].timestamp, cbs[i].delay)]]

\* the tasks of one dispatch, in the order they are posted
TimeoutTasks(c) == TaskOf("timeout", c, TimeoutFired(timeoutCallbacks, c))
IntervalTasks(c) == TaskOf("interval", c, IntervalFired(intervalCallbacks, c))

\* one dispatch for the clock value c, posting `batch`
Dispatch(c, batch) ==
    /\ Len(realTasks) + Len(batch) <= MaxRealTasks
    /\ timeoutCallbacks' = TimeoutKept(timeoutCallbacks, c)
    /\ intervalCallbacks' = IntervalAfter(intervalCallbacks, c)
    /\ realTasks' = realTasks \o batch
    /\ lastBatch' = batch
    /\ timeoutDispatches' = timeoutDispatches \o
           [i \in DOMAIN TimeoutTasks(c) |-> TimeoutTasks(c)[i].id]

\* the capture loop: _callIntervalCallbacks(c) then _callTimeoutCallbacks(c)
DispatchLoop(c) == Dispatch(c, IntervalTasks(c) \o TimeoutTasks(c))

\* init() and the watchdog: _callTimeoutCallbacks(c) then _callIntervalCallbacks(c)
DispatchPreStart(c) == Dispatch(c, TimeoutTasks(c) \o IntervalTasks(c))

InitCtx ==
    /\ currentTime = 0
    /\ frameIndex = 0
    /\ frameInterval = 0
    /\ readyFlag = FALSE
    /\ startFlag = FALSE
    /\ stopFlag = FALSE
    /\ readyCallback = FALSE
    /\ intervalCallbacks = <<>>
    /\ timeoutCallbacks = <<>>
    /\ timerId = 0
    /\ config = [fps |-> 0, startTime |-> 0, duration |-> 0, frameCount |-> 0,
                 autostart |-> FALSE]
    /\ initDone = FALSE
    /\ realClock = 0
    /\ realTasks = <<>>
    /\ loopPc = [l \in Loops |-> "none"]
    /\ dispatchMedias = <<>>
    /\ mediaWait = [l \in Loops |-> <<>>]
    /\ elements = <<>>
    /\ seekLog = <<>>
    /\ loadFailed = {}
    /\ captureCount = 0
    /\ skipCount = 0
    /\ completedCount = 0
    /\ lastBatch = <<>>
    /\ timeoutDispatches = <<>>
    /\ cleared = {}
    /\ invokedAfterClear = {}
    /\ issuedIds = <<>>

\* window.setTimeout(fn, timeout), as rewritten
setTimeout(timeout) ==
    /\ timerId > 0 - MaxTimers
    /\ timerId' = timerId - 1
    /\ timeoutCallbacks' = Append(timeoutCallbacks,
           [id |-> timerId - 1, timestamp |-> currentTime, delay |-> timeout])
    /\ issuedIds' = Append(issuedIds, timerId - 1)
    /\ UNCHANGED <<currentTime, frameIndex, frameInterval, readyFlag, startFlag,
                   stopFlag, readyCallback, intervalCallbacks, config, initDone,
                   realClock, realTasks, loopPc>>
    /\ UNCHANGED <<synthVars, poolVars, extVars, lastRequest, closedBrowsers,
                   packRun, pre,
                   synthesizePc, lateVars>>
    /\ UNCHANGED <<mediaVars, hostVars, timerHist>>

\* window.setInterval(fn, interval), as rewritten
setInterval(interval) ==
    /\ timerId > 0 - MaxTimers
    /\ timerId' = timerId - 1
    /\ intervalCallbacks' = Append(intervalCallbacks,
           [id |-> timerId - 1, timestamp |-> currentTime, delay |-> interval])
    /\ issuedIds' = Append(issuedIds, timerId - 1)
    /\ UNCHANGED <<currentTime, frameIndex, frameInterval, readyFlag, startFlag,
                   stopFlag, readyCallback, timeoutCallbacks, config, initDone,
                   realClock, realTasks, loopPc>>
    /\ UNCHANGED <<synthVars, poolVars, extVars, lastRequest, closedBrowsers,
                   packRun, pre,
                   synthesizePc, lateVars>>
    /\ UNCHANGED <<mediaVars, hostVars, timerHist>>

\* the entries a clear of `id` leaves
WithoutId(cbs, id) == SelectSeq(cbs, LAMBDA e : e.id # id)

\* the posted callbacks of kind `kind` registered under id
Posted(kind, id) ==
    {i \in DOMAIN realTasks : realTasks[i].kind = kind /\ realTasks[i].id = id}

\* window.clearTimeout(timerId), as rewritten: a positive id goes to the real
\* clearTimeout, which knows no virtual timer
clearTimeout(id) ==
    /\ id # 0
    /\ IF id >= 0
       THEN UNCHANGED <<timeoutCallbacks, cleared>>
       ELSE /\ timeoutCallbacks' = WithoutId(timeoutCallbacks, id)
            /\ cleared' = IF Posted("timeout", id) # {}
                          THEN cleared \cup {id} ELSE cleared
    /\ UNCHANGED <<currentTime, frameIndex, frameInterval, readyFlag, startFlag,
                   stopFlag, readyCallback, intervalCallbacks, timerId, config,
                   initDone, realClock, realTasks, loopPc>>
    /\ UNCHANGED <<lastBatch, timeoutDispatches, invokedAfterClear>>
    /\ UNCHANGED <<notPage, mediaVars, hostVars>>

\* window.clearInterval(timerId), as rewritten
clearInterval(id) ==
    /\ id # 0
    /\ IF id >= 0
       THEN UNCHANGED <<intervalCallbacks, cleared>>
       ELSE /\ intervalCallbacks' = WithoutId(intervalCallbacks, id)
            /\ cleared' = IF Posted("interval", id) # {}
                          THEN cleared \cup {id} ELSE cleared
    /\ UNCHANGED <<currentTime, frameIndex, frameInterval, readyFlag, startFlag,
                   stopFlag, readyCallback, timeoutCallbacks, timerId, config,
                   initDone, realClock, realTasks, loopPc>>
    /\ UNCHANGED <<lastBatch, timeoutDispatches, invokedAfterClear>>
    /\ UNCHANGED <<notPage, mediaVars, hostVars>>

\* the real event loop runs the oldest posted callback: fn(clock)
RunCallback ==
    /\ realTasks # <<>>
    /\ realTasks' = Tail(realTasks)
    /\ invokedAfterClear' = IF Head(realTasks).id \in cleared
                            THEN invokedAfterClear \cup {Head(realTasks).id}
                            ELSE invokedAfterClear
    /\ UNCHANGED <<currentTime, frameIndex, frameInterval, readyFlag, startFlag,
                   stopFlag, readyCallback, intervalCallbacks, timeoutCallbacks,
                   timerId, config, initDone, realClock, loopPc>>
    /\ UNCHANGED <<lastBatch, timeoutDispatches, cleared>>
    /\ UNCHANGED <<notPage, mediaVars, hostVars>>

\* CaptureContext.init(), called by Page.goto / Page.setContent:
\* both dispatch functions are called without a clock value
init ==
    /\ ~initDone
    /\ initDone' = TRUE
    /\ DispatchPreStart(Undef)
    /\ UNCHANGED <<currentTime, frameIndex, frameInterval, readyFlag, startFlag,
                   stopFlag, readyCallback, timerId, config, realClock, loopPc>>
    /\ UNCHANGED <<cleared, invokedAfterClear>>
    /\ UNCHANGED <<notPage, mediaVars, hostVars>>

\* dispatchBeforeStart(): the watchdog on the real timer, once ready and
\* until the loop has set startFlag
dispatchBeforeStart(now) ==
    /\ ~startFlag
    /\ readyFlag
    /\ now >= realClock
    /\ realClock' = now
    /\ DispatchPreStart(now)
    /\ UNCHANGED <<currentTime, frameIndex, frameInterval, readyFlag, startFlag,
                   stopFlag, readyCallback, timerId, config, initDone, loopPc>>
    /\ UNCHANGED <<cleared, invokedAfterClear>>
    /\ UNCHANGED <<notPage, mediaVars, hostVars>>

(***************************************************************************)
(* Media scheduling. A dispatch media is modelled as a VideoCanvas, the    *)
(* variant with offsetTime; with loop = FALSE it schedules as the others.  *)
(***************************************************************************)
\* dispatch medias a page may hold
MaxMedias == 2

\* start-time / end-time attributes of a media element; 0 is "not given"
MediaStartAttrs == {0, 40}
MediaEndAttrs == {0, 60}
\* decoded videos: frame interval (ms) and frame count
MediaShapes == {[mfi |-> 20, mframes |-> 2]}
\* the media elements page code may insert
MediaElements == [startAttr : MediaStartAttrs, endAttr : MediaEndAttrs,
                  loop : BOOLEAN, shape : MediaShapes]

NoWait == [kind |-> "none", arg |-> 0]
NoLog == [kind |-> "none", arg |-> 0, off |-> 0]

\* VideoCanvas.canPlay(time)
canPlay(m, time) == ~m.destoryed /\ ~(time < m.startTime \/ time >= m.endTime)

\* VideoCanvas.canDestory(time)
canDestory(m, time) == ~m.destoryed /\ time >= m.endTime

\* VideoCanvas.destory()
destory(m) == [m EXCEPT !.destoryed = TRUE, !.ready = FALSE, !.frameIndex = Undef]

\* VideoCanvas.isEnd(); a null frameIndex compares as 0
isEnd(m) == (IF m.frameIndex = Undef THEN 0 ELSE m.frameIndex) >= m.mframes - 1

\* VideoCanvas.seek(time) returns before it acquires a frame
SeekReturnsEarly(m, time) ==
    \/ m.destoryed
    \/ m.frameIndex = time \div m.mfi
    \/ (~m.loop /\ isEnd(m))
    \/ time \div m.mfi >= m.mframes

\* VideoCanvas.seek(time) once the frame is drawn; reset() when a loop ends
SeekDrawn(m, time) ==
    LET drawn == [m EXCEPT !.frameIndex = time \div m.mfi]
    IN IF m.loop /\ (isEnd(drawn) \/ time >= m.mfi * m.mframes)
       THEN [drawn EXCEPT !.offsetTime = m.offsetTime + time,
                          !.frameIndex = Undef, !.ready = FALSE]
       ELSE drawn

\* mutant of mediaCurrentTime: the time already played by earlier loops is ignored
mediaCurrentTimeNoOffset(m, time) ==
    IF time - m.startTime > 0 THEN time - m.startTime ELSE 0

\* start(): the argument of media.seek, never negative
mediaCurrentTime(m, time) ==
    IF time - m.startTime - m.offsetTime > 0
    THEN time - m.startTime - m.offsetTime ELSE 0

\* what a call of media.seek(arg) leaves to await
SeekCall(m, arg) ==
    IF SeekReturnsEarly(m, arg) THEN NoWait ELSE [kind |-> "seek", arg |-> arg]

\* start(): one media of the tick's map, up to its first await
MediaSync(m, time) ==
    IF canDestory(m, time) THEN NoWait
    ELSE IF ~canPlay(m, time) THEN NoWait
    ELSE IF ~m.ready THEN [kind |-> "load", arg |-> 0]
    ELSE SeekCall(m, mediaCurrentTime(m, time))

\* history: what MediaSync did
MediaSyncLog(m, time) ==
    IF canDestory(m, time) THEN [kind |-> "destory", arg |-> 0, off |-> 0]
    ELSE IF ~canPlay(m, time) THEN [kind |-> "skip", arg |-> 0, off |-> 0]
    ELSE IF ~m.ready THEN [kind |-> "load", arg |-> 0, off |-> 0]
    ELSE [kind |-> "seek", arg |-> mediaCurrentTime(m, time), off |-> m.offsetTime]

\* an element as _convertElementsToMedias() or the insert observer converts it
NewMedia(el, cfg, time) ==
    [startTime |-> IF el.startAttr # 0 THEN el.startAttr ELSE time,
     endTime |-> IF el.endAttr # 0 /\ el.endAttr < cfg.duration
                 THEN el.endAttr ELSE cfg.duration,
     offsetTime |-> 0, ready |-> FALSE, destoryed |-> FALSE, loop |-> el.loop,
     frameIndex |-> Undef, mfi |-> el.shape.mfi, mframes |-> el.shape.mframes]

\* _convertElementsToMedias(): every media element of the document
Converted(els, cfg, time) == [i \in DOMAIN els |-> NewMedia(els[i], cfg, time)]

\* page code inserts a media element: start() converts it, or the observer
\* of _observMediaInsert() does once the loop runs
InsertElement(el) ==
    /\ Len(elements) + Len(dispatchMedias) < MaxMedias
    /\ IF startFlag
       THEN /\ dispatchMedias' = Append(dispatchMedias, NewMedia(el, config, currentTime))
            /\ UNCHANGED elements
       ELSE /\ elements' = Append(elements, el)
            /\ UNCHANGED dispatchMedias
    /\ UNCHANGED <<mediaWait, seekLog, loadFailed>>
    /\ UNCHANGED <<notPage, ctxVars, hostVars, timerHist>>

(***************************************************************************)
(* Page.timeActions: functions keyed by a time, consumed by                *)
(* #seekTimeActions, which the capture loop calls once per tick.           *)
(***************************************************************************)
\* the keys a job registers
TimeActionKeys == {0, 5, 10}

RECURSIVE Digits(_)
\* String(n): the decimal digits of n
Digits(n) == IF n < 10 THEN <<n>> ELSE Append(Digits(n \div 10), n % 10)

\* a < b as Array.prototype.sort() without a comparator orders them: by the
\* UTF-16 code units of String(a) and String(b)
StringLess(a, b) ==
    LET x == Digits(a)
        y == Digits(b)
    IN \/ \E i \in 1..Len(x) :
             /\ i <= Len(y)
             /\ \A h \in 1..(i - 1) : x[h] = y[h]
             /\ x[i] < y[i]
       \/ /\ Len(x) < Len(y)
          /\ \A h \in 1..Len(x) : x[h] = y[h]

RECURSIVE SortedKeys(_)
\* Object.keys(this.timeActions).map(Number).sort()
SortedKeys(keys) ==
    IF keys = {} THEN <<>>
    ELSE LET m == CHOOSE k \in keys : \A o \in keys \ {k} : StringLess(k, o)
         IN <<m>> \o SortedKeys(keys \ {m})

\* .find(time => currentTime >= time): the first match, or undefined
FindMatch(sorted, t) ==
    IF \E i \in DOMAIN sorted : t >= sorted[i]
    THEN sorted[CHOOSE i \in DOMAIN sorted :
                    /\ t >= sorted[i]
                    /\ \A h \in 1..(i - 1) : ~(t >= sorted[h])]
    ELSE Undef

\* mutant of Consumed: the entry is not deleted
ConsumedKept(keys, match) == keys

\* delete this.timeActions[matchTimeNodes]
Consumed(keys, match) == keys \ {match}

InitTimeActions ==
    /\ timeActions = {}
    /\ taInvoked = <<>>
    /\ taLast = [called |-> FALSE, t |-> 0, keys |-> {}, picked |-> Undef]

\* Page.registerTimeActions(timeActions), before the capture is started
registerTimeActions(keys) ==
    /\ initDone
    /\ ~readyFlag
    /\ timeActions = {}
    /\ keys # {}
    /\ timeActions' = keys
    /\ UNCHANGED <<taInvoked, taLast, abortCalled, hostPage, taskVars, fetchVars, chunkVars>>
    /\ UNCHANGED <<sideVars, synthVars, ctxVars, mediaVars, hostVars, timerHist, poolVars>>

\* #seekTimeActions(currentTime): `if(!matchTimeNodes) return` returns for
\* undefined and for the key 0; otherwise the entry is deleted and invoked
seekTimeActions(t) ==
    LET match == FindMatch(SortedKeys(timeActions), t)
        none == match = Undef \/ match = 0
    IN /\ timeActions' = IF none THEN timeActions ELSE Consumed(timeActions, match)
       /\ taInvoked' = IF none THEN taInvoked ELSE Append(taInvoked, match)
       /\ taLast' = [called |-> TRUE, t |-> t, keys |-> timeActions,
                     picked |-> IF none THEN Undef ELSE match]

(***************************************************************************)
(* The capture loop of start(): one nextFrame() chain per started loop.    *)
(***************************************************************************)
\* nextFrame() up to its first await: the stop test and the map over `medias`
nextFrame(l, medias) ==
    /\ startFlag' = TRUE
    /\ IF stopFlag
       THEN /\ completedCount' = completedCount + 1
            /\ loopPc' = [loopPc EXCEPT ![l] = "done"]
            /\ dispatchMedias' = medias
            /\ UNCHANGED <<mediaWait, seekLog, loadFailed>>
       ELSE /\ dispatchMedias' =
                  [i \in DOMAIN medias |->
                      IF canDestory(medias[i], currentTime)
                      THEN destory(medias[i]) ELSE medias[i]]
            /\ mediaWait' = [mediaWait EXCEPT ![l] =
                  [i \in DOMAIN medias |-> MediaSync(medias[i], currentTime)]]
            /\ seekLog' = [i \in DOMAIN medias |-> MediaSyncLog(medias[i], currentTime)]
            /\ loopPc' = [loopPc EXCEPT ![l] = "media"]
            /\ UNCHANGED <<completedCount, loadFailed>>

\* start() once ready, under the config cfg: _checkConfig() throws, or the
\* elements are converted and the first nextFrame() runs
startLoop(l, cfg) ==
    IF cfg.frameCount <= 0
    THEN /\ loopPc' = [loopPc EXCEPT ![l] = "error"]
         /\ UNCHANGED <<frameInterval, startFlag, completedCount, mediaVars>>
    ELSE /\ frameInterval' = 1000 \div cfg.fps
         /\ elements' = <<>>
         /\ nextFrame(l, dispatchMedias \o Converted(elements, cfg, currentTime))

\* Page.startScreencast: the config is assigned, then ready() and, if the page
\* asked for it before or autostart is set, start()
startScreencast(fps, duration, startTime, autostart) ==
    /\ initDone
    /\ ~readyFlag
    /\ LET cfg == [fps |-> fps, startTime |-> startTime, duration |-> duration,
                   frameCount |-> durationToFrameCount(duration, fps),
                   autostart |-> autostart]
       IN /\ config' = cfg
          /\ IF readyCallback \/ autostart
             THEN startLoop(1, cfg)
             ELSE UNCHANGED <<frameInterval, startFlag, loopPc, completedCount,
                              mediaVars>>
    /\ readyFlag' = TRUE
    /\ realClock' = 0
    /\ hostState' = "CAPTURING"
    /\ UNCHANGED <<currentTime, frameIndex, stopFlag, readyCallback,
                   intervalCallbacks, timeoutCallbacks, timerId, initDone, realTasks>>
    /\ UNCHANGED <<sideVars, synthVars, poolVars, taVars, abortCalled, pageErrors, timedOut,
                   taskVars, fetchVars, chunkVars>>
    /\ UNCHANGED <<captureCount, skipCount, timerHist>>

\* page code calls captureCtx.start()
start(l) ==
    /\ loopPc[l] = "none"
    /\ IF ~readyFlag
       THEN /\ readyCallback' = TRUE
            /\ UNCHANGED <<frameInterval, startFlag, loopPc, completedCount, mediaVars>>
       ELSE /\ startLoop(l, config)
            /\ UNCHANGED readyCallback
    /\ UNCHANGED <<currentTime, frameIndex, readyFlag, stopFlag, intervalCallbacks,
                   timeoutCallbacks, timerId, config, initDone, realClock, realTasks>>
    /\ UNCHANGED <<notPage, captureCount, skipCount, timerHist>>

\* media.load() settles: the media is ready and sought, or destroyed
MediaLoaded(l, i, ok) ==
    /\ i \in DOMAIN mediaWait[l]
    /\ mediaWait[l][i].kind = "load"
    /\ LET m == dispatchMedias[i]
           arg == mediaCurrentTime([m EXCEPT !.ready = TRUE], currentTime)
       IN IF ok
          THEN /\ dispatchMedias' = [dispatchMedias EXCEPT ![i].ready = TRUE]
               /\ mediaWait' = [mediaWait EXCEPT ![l][i] = SeekCall(m, arg)]
               /\ seekLog' = [seekLog EXCEPT ![i] =
                      [kind |-> "seek", arg |-> arg, off |-> m.offsetTime]]
               /\ UNCHANGED loadFailed
          ELSE /\ dispatchMedias' = [dispatchMedias EXCEPT ![i] = destory(m)]
               /\ mediaWait' = [mediaWait EXCEPT ![l][i] = NoWait]
               /\ seekLog' = [seekLog EXCEPT ![i] = [kind |-> "loadFailed",
                                                     arg |-> 0, off |-> 0]]
               /\ loadFailed' = loadFailed \cup {i}
    /\ UNCHANGED elements
    /\ UNCHANGED <<notPage, ctxVars, hostVars, timerHist>>

\* media.seek() settles: the frame is drawn, or acquiring it timed out and
\* the rejection ends the chain (it is only logged by the catch of nextFrame)
MediaSeeked(l, i, ok) ==
    /\ i \in DOMAIN mediaWait[l]
    /\ mediaWait[l][i].kind = "seek"
    /\ mediaWait' = [mediaWait EXCEPT ![l][i] = NoWait]
    /\ IF ok
       THEN /\ dispatchMedias' = [dispatchMedias EXCEPT
                   ![i] = SeekDrawn(dispatchMedias[i], mediaWait[l][i].arg)]
            /\ UNCHANGED loopPc
       ELSE /\ loopPc' = [loopPc EXCEPT ![l] = "dead"]
            /\ UNCHANGED dispatchMedias
    /\ timedOut' = IF ok THEN timedOut ELSE timedOut \cup {"acquireFrame"}
    /\ UNCHANGED <<elements, seekLog, loadFailed>>
    /\ UNCHANGED <<currentTime, frameIndex, frameInterval, readyFlag, startFlag,
                   stopFlag, readyCallback, intervalCallbacks, timeoutCallbacks,
                   timerId, config, initDone, realClock, realTasks>>
    /\ UNCHANGED <<sideVars, synthVars, poolVars, taVars, abortCalled, hostState, pageErrors,
                   taskVars, fetchVars, chunkVars>>
    /\ UNCHANGED <<hostVars, timerHist>>

\* mutant of LoopMediaDone: the loop goes on without awaiting the medias
LoopMediaNotAwaited(l) ==
    /\ loopPc[l] = "media"
    /\ loopPc' = [loopPc EXCEPT ![l] = "seekCSS"]
    /\ UNCHANGED <<currentTime, frameIndex, frameInterval, readyFlag, startFlag,
                   stopFlag, readyCallback, intervalCallbacks, timeoutCallbacks,
                   timerId, config, initDone, realClock, realTasks>>
    /\ UNCHANGED <<notPage, mediaVars, hostVars, timerHist>>

\* Promise.all of the medias has resolved: ____seekCSSAnimations is called
LoopMediaDone(l) ==
    /\ loopPc[l] = "media"
    /\ \A i \in DOMAIN mediaWait[l] : mediaWait[l][i].kind = "none"
    /\ loopPc' = [loopPc EXCEPT ![l] = "seekCSS"]
    /\ UNCHANGED <<currentTime, frameIndex, frameInterval, readyFlag, startFlag,
                   stopFlag, readyCallback, intervalCallbacks, timeoutCallbacks,
                   timerId, config, initDone, realClock, realTasks>>
    /\ UNCHANGED <<notPage, mediaVars, hostVars, timerHist>>

\* ____seekCSSAnimations has returned: ____seekTimeActions is called and
\* #seekTimeActions runs on the host
LoopSeekCSSDone(l) ==
    /\ loopPc[l] = "seekCSS"
    /\ loopPc' = [loopPc EXCEPT ![l] = "seekTA"]
    /\ seekTimeActions(currentTime)
    /\ UNCHANGED <<abortCalled, hostPage, taskVars, fetchVars, chunkVars>>
    /\ UNCHANGED <<currentTime, frameIndex, frameInterval, readyFlag, startFlag,
                   stopFlag, readyCallback, intervalCallbacks, timeoutCallbacks,
                   timerId, config, initDone, realClock, realTasks>>
    /\ UNCHANGED <<sideVars, synthVars, poolVars, mediaVars, hostVars, timerHist>>

\* mutant of advance: the clock moves by two frame intervals
advanceTwice(t, interval) == t + 2 * interval

\* this.currentTime += this.frameInterval
advance(t, interval) == t + interval

\* ____seekTimeActions has returned: the clock advances, the timers are
\* dispatched, and ____captureFrame or ____skipFrame is called
LoopAdvance(l) ==
    /\ loopPc[l] = "seekTA"
    /\ currentTime' = advance(currentTime, frameInterval)
    /\ DispatchLoop(advance(currentTime, frameInterval))
    /\ IF advance(currentTime, frameInterval) >= config.startTime
       THEN /\ captureCount' = captureCount + 1
            /\ loopPc' = [loopPc EXCEPT ![l] = "capture"]
            /\ UNCHANGED skipCount
       ELSE /\ skipCount' = skipCount + 1
            /\ loopPc' = [loopPc EXCEPT ![l] = "skip"]
            /\ UNCHANGED captureCount
    /\ UNCHANGED <<frameIndex, frameInterval, readyFlag, startFlag, stopFlag,
                   readyCallback, timerId, config, initDone, realClock>>
    /\ UNCHANGED <<cleared, invokedAfterClear>>
    /\ UNCHANGED <<notPage, mediaVars, completedCount>>

\* what ____captureFrame and ____skipFrame may do on the host
FrameOutcomes == {"frame", "timeout", "error"}

\* mutant of captureFrameResult: #captureFrame answers true whatever happened
captureFrameResultTrue(outcome) == TRUE

\* the value #captureFrame returns: its catch returns false
captureFrameResult(outcome) == outcome = "frame"

\* #captureFrame or #skipFrame on the host: a beginFrame that does not answer
\* in time makes the page UNAVAILABLED; the catch of #captureFrame emits
\* "error", which #skipFrame, having no catch, does not
HostFrame(outcome, caught) ==
    /\ hostState' = IF outcome = "timeout" THEN "UNAVAILABLED" ELSE hostState
    /\ timedOut' = IF outcome = "timeout" THEN timedOut \cup {"beginFrame"} ELSE timedOut
    /\ pageErrors' = IF caught /\ outcome # "frame" THEN pageErrors + 1 ELSE pageErrors

\* ____captureFrame has run #captureFrame and returned to the page
LoopCaptured(l, outcome) ==
    /\ loopPc[l] = "capture"
    /\ HostFrame(outcome, TRUE)
    /\ IF ~captureFrameResult(outcome)
       THEN /\ stopFlag' = TRUE
            /\ loopPc' = [loopPc EXCEPT ![l] = "failed"]
            /\ UNCHANGED <<frameIndex, startFlag, completedCount, mediaVars>>
       ELSE /\ frameIndex' = frameIndex + 1
            /\ IF frameIndex + 1 >= config.frameCount
               THEN /\ stopFlag' = TRUE
                    /\ completedCount' = completedCount + 1
                    /\ loopPc' = [loopPc EXCEPT ![l] = "done"]
                    /\ UNCHANGED <<startFlag, mediaVars>>
               ELSE /\ nextFrame(l, dispatchMedias)
                    /\ UNCHANGED <<stopFlag, elements>>
    /\ UNCHANGED <<currentTime, frameInterval, readyFlag, readyCallback,
                   intervalCallbacks, timeoutCallbacks, timerId, config, initDone,
                   realClock, realTasks>>
    /\ UNCHANGED <<sideVars, synthVars, poolVars, taVars, abortCalled,
                   taskVars, fetchVars, chunkVars>>
    /\ UNCHANGED <<captureCount, skipCount, timerHist>>

\* ____skipFrame has run #skipFrame: it returned, or it threw and the
\* rejection ends the chain (it is only logged by the catch of nextFrame)
LoopSkipped(l, outcome) ==
    /\ loopPc[l] = "skip"
    /\ HostFrame(outcome, FALSE)
    /\ IF outcome = "frame"
       THEN /\ nextFrame(l, dispatchMedias)
            /\ UNCHANGED elements
       ELSE /\ loopPc' = [loopPc EXCEPT ![l] = "dead"]
            /\ UNCHANGED <<startFlag, completedCount, mediaVars>>
    /\ UNCHANGED <<currentTime, frameIndex, frameInterval, readyFlag, stopFlag,
                   readyCallback, intervalCallbacks, timeoutCallbacks, timerId,
                   config, initDone, realClock, realTasks>>
    /\ UNCHANGED <<sideVars, synthVars, poolVars, taVars, abortCalled,
                   taskVars, fetchVars, chunkVars>>
    /\ UNCHANGED <<captureCount, skipCount, timerHist>>

\* captureCtx.abort(), evaluated in the page for SingleVideo.abort(), while
\* the loop runs: it returns without effect unless isCapturing()
abort ==
    /\ startFlag
    /\ ~abortCalled
    /\ abortCalled' = TRUE
    /\ stopFlag' = IF isCapturing THEN TRUE ELSE stopFlag
    /\ UNCHANGED <<currentTime, frameIndex, frameInterval, readyFlag, startFlag,
                   readyCallback, intervalCallbacks, timeoutCallbacks, timerId,
                   config, initDone, realClock, realTasks, loopPc>>
    /\ UNCHANGED <<sideVars, synthVars, poolVars, taVars, hostPage,
                   taskVars, fetchVars, chunkVars, mediaVars, hostVars,
                   timerHist>>

(***************************************************************************)
(* The earlier CaptureContext (src/unnamed/part_000): no ready handshake,  *)
(* no start time, no virtual timers; the host sets fps and frame count and *)
(* calls start().                                                          *)
(***************************************************************************)
\* CaptureContext.setFPS(value)
LegacySetFPS(value) ==
    /\ loopPc[1] = "none"
    /\ config' = [config EXCEPT !.fps = value]
    /\ UNCHANGED <<currentTime, frameIndex, frameInterval, readyFlag, startFlag,
                   stopFlag, readyCallback, intervalCallbacks, timeoutCallbacks,
                   timerId, initDone, realClock, realTasks, loopPc>>
    /\ UNCHANGED <<notPage, mediaVars, hostVars, timerHist>>

\* CaptureContext.setFrameCount(value)
LegacySetFrameCount(value) ==
    /\ loopPc[1] = "none"
    /\ config' = [config EXCEPT !.frameCount = value]
    /\ UNCHANGED <<currentTime, frameIndex, frameInterval, readyFlag, startFlag,
                   stopFlag, readyCallback, intervalCallbacks, timeoutCallbacks,
                   timerId, initDone, realClock, realTasks, loopPc>>
    /\ UNCHANGED <<notPage, mediaVars, hostVars, timerHist>>

\* window.setTimeout(fn, timeout) as src/unnamed/part_001 rewrites it: the id
\* counts upwards
LegacySetTimeout(timeout) ==
    /\ timerId < MaxTimers
    /\ timerId' = timerId + 1
    /\ timeoutCallbacks' = Append(timeoutCallbacks,
           [id |-> timerId + 1, timestamp |-> currentTime, delay |-> timeout])
    /\ issuedIds' = Append(issuedIds, timerId + 1)
    /\ UNCHANGED <<currentTime, frameIndex, frameInterval, readyFlag, startFlag,
                   stopFlag, readyCallback, intervalCallbacks, config, initDone,
                   realClock, realTasks, loopPc>>
    /\ UNCHANGED <<synthVars, poolVars, extVars, lastRequest, closedBrowsers,
                   packRun, pre,
                   synthesizePc, lateVars>>
    /\ UNCHANGED <<mediaVars, hostVars, timerHist>>

\* window.setInterval(fn, interval) as src/unnamed/part_001 rewrites it
LegacySetInterval(interval) ==
    /\ timerId < MaxTimers
    /\ timerId' = timerId + 1
    /\ intervalCallbacks' = Append(intervalCallbacks,
           [id |-> timerId + 1, timestamp |-> currentTime, delay |-> interval])
    /\ issuedIds' = Append(issuedIds, timerId + 1)
    /\ UNCHANGED <<currentTime, frameIndex, frameInterval, readyFlag, startFlag,
                   stopFlag, readyCallback, timeoutCallbacks, config, initDone,
                   realClock, realTasks, loopPc>>
    /\ UNCHANGED <<synthVars, poolVars, extVars, lastRequest, closedBrowsers,
                   packRun, pre,
                   synthesizePc, lateVars>>
    /\ UNCHANGED <<mediaVars, hostVars, timerHist>>

\* CaptureContext.start(): the first nextFrame() calls window.captureFrame()
LegacyStart ==
    /\ loopPc[1] = "none"
    /\ config.fps > 0
    /\ frameInterval' = 1000 \div config.fps
    /\ captureCount' = captureCount + 1
    /\ loopPc' = [loopPc EXCEPT ![1] = "capture"]
    /\ UNCHANGED <<currentTime, frameIndex, readyFlag, startFlag, stopFlag,
                   readyCallback, intervalCallbacks, timeoutCallbacks, timerId,
                   config, initDone, realClock, realTasks>>
    /\ UNCHANGED <<notPage, mediaVars, skipCount, completedCount, timerHist>>

\* window.captureFrame() has returned `ok`: frameIndex++ is compared before
\* it is incremented, then the clock advances and the next frame is captured
LegacyCaptured(ok) ==
    /\ loopPc[1] = "capture"
    /\ IF ~ok
       THEN /\ stopFlag' = TRUE
            /\ loopPc' = [loopPc EXCEPT ![1] = "failed"]
            /\ UNCHANGED <<frameIndex, currentTime, captureCount, completedCount>>
       ELSE /\ frameIndex' = frameIndex + 1
            /\ IF frameIndex >= config.frameCount
               THEN /\ stopFlag' = TRUE
                    /\ completedCount' = completedCount + 1
                    /\ loopPc' = [loopPc EXCEPT ![1] = "done"]
                    /\ UNCHANGED <<currentTime, captureCount>>
               ELSE /\ currentTime' = currentTime + frameInterval
                    /\ captureCount' = captureCount + 1
                    /\ UNCHANGED <<stopFlag, completedCount, loopPc>>
    /\ UNCHANGED <<frameInterval, readyFlag, startFlag, readyCallback,
                   intervalCallbacks, timeoutCallbacks, timerId, config, initDone,
                   realClock, realTasks>>
    /\ UNCHANGED <<notPage, mediaVars, skipCount, timerHist>>

(***************************************************************************)
(* ResourcePool: a generic-pool of browsers, each browser a generic-pool   *)
(* of pages. The pools are created without testOnBorrow, so their validate *)
(* callback is never called; resources are created on demand (the min      *)
(* warm-up only creates earlier what a later acquire would create).        *)
(***************************************************************************)
Browsers == 1..numBrowserMax
Jobs == 1..NumJobs
Pages == Browsers \X (1..MaxPageIds)
NoPage == <<0, 0>>

RECURSIVE SetToSeq(_)
\* the keys of #checkMap in the order `for (let id in ...)` visits them
SetToSeq(S) ==
    IF S = {} THEN <<>>
    ELSE LET m == CHOOSE x \in S : \A y \in S : x <= y
         IN <<m>> \o SetToSeq(S \ {m})

\* generic-pool: resources the page pool of browser b holds
PageCount(b) == Len(pageAvail[b]) + Cardinality(pageLoans[b])

\* generic-pool spareResourceCapacity > 0, under max: this.numPageMax
HasSpareCapacity(b) == PageCount(b) < numPageMax

\* mutant of isBusy: a browser counts as busy only beyond its page capacity
isBusyBeyondMax(loans) == Cardinality(loans) > numPageMax

\* Browser.isBusy(): #pagePool.borrowed >= #pagePool.max
isBusy(loans) == Cardinality(loans) >= numPageMax

\* the Page object the page pool of b creates next
NewPage(b) == <<b, CHOOSE k \in 1..MaxPageIds :
                     /\ pageState[<<b, k>>] = "none"
                     /\ \A i \in 1..(k - 1) : pageState[<<b, i>>] # "none">>

\* #browserPool.acquire() can hand out a browser now
CanAcquireBrowser == browserAvail # <<>> \/ browserCount < numBrowserMax

\* #pagePool.acquire() of browser b can hand out a page now
CanAcquirePage(b) ==
    \/ b > browserCount
    \/ pageAvail[b] # <<>>
    \/ HasSpareCapacity(b) /\ \E k \in 1..MaxPageIds : pageState[<<b, k>>] = "none"

InitPool ==
    /\ browserCount = 0
    /\ browserAvail = <<>>
    /\ checkMap = {}
    /\ pageState = [pg \in Pages |-> "none"]
    /\ pageAvail = [b \in Browsers |-> <<>>]
    /\ pageLoans = [b \in Browsers |-> {}]
    /\ lockQueue = <<>>
    /\ jobPc = [j \in Jobs |-> "idle"]
    /\ jobPage = [j \in Jobs |-> NoPage]
    /\ faults = 0
    /\ acquiredState = [j \in Jobs |-> "none"]
    /\ waited = {}
    /\ closedBrowsers = {}

\* a job calls ResourcePool.acquirePage() and queues on the asyncLock
JobRequest(j) ==
    /\ jobPc[j] = "idle"
    /\ \A i \in 1..(j - 1) : jobPc[i] # "idle"
    /\ lockQueue' = Append(lockQueue, j)
    /\ jobPc' = [jobPc EXCEPT ![j] = "queued"]
    /\ UNCHANGED <<browserCount, browserAvail, checkMap, pageState, pageAvail,
                   pageLoans, jobPage, faults, acquiredState, waited>>
    /\ UNCHANGED notPool

\* ResourcePool.acquirePage() under the lock: a browser, a page of it, then
\* the browser is released if it is not busy or else left to #checker
acquirePage(j) ==
    /\ lockQueue # <<>> /\ Head(lockQueue) = j
    /\ jobPc[j] = "queued"
    /\ CanAcquireBrowser
    /\ LET b == IF browserAvail # <<>> THEN Head(browserAvail) ELSE browserCount + 1
           rest == IF browserAvail # <<>> THEN Tail(browserAvail) ELSE browserAvail
           pg == IF b <= browserCount /\ pageAvail[b] # <<>>
                 THEN Head(pageAvail[b]) ELSE NewPage(b)
           state == IF pageState[pg] = "none" THEN "READY" ELSE pageState[pg]
           loans == pageLoans[b] \cup {pg}
       IN /\ CanAcquirePage(b)
          /\ b \notin closedBrowsers
          /\ browserCount' = IF b > browserCount THEN b ELSE browserCount
          /\ pageState' = [pageState EXCEPT ![pg] = state]
          /\ pageAvail' = [pageAvail EXCEPT ![b] =
                               IF pageAvail[b] # <<>> THEN Tail(pageAvail[b]) ELSE <<>>]
          /\ pageLoans' = [pageLoans EXCEPT ![b] = loans]
          /\ browserAvail' = IF isBusy(loans) THEN rest ELSE Append(rest, b)
          /\ checkMap' = IF isBusy(loans) THEN checkMap \cup {b} ELSE checkMap
          /\ jobPage' = [jobPage EXCEPT ![j] = pg]
          /\ acquiredState' = [acquiredState EXCEPT ![j] = state]
    /\ lockQueue' = Tail(lockQueue)
    /\ jobPc' = [jobPc EXCEPT ![j] = "holding"]
    /\ UNCHANGED <<faults, waited>>
    /\ UNCHANGED notPool

\* Page.startScreencast of the job's page: it asserts isReady()
PageStartScreencast(j) ==
    /\ jobPc[j] = "holding"
    /\ pageState[jobPage[j]] = "READY"
    /\ pageState' = [pageState EXCEPT ![jobPage[j]] = "CAPTURING"]
    /\ UNCHANGED <<browserCount, browserAvail, checkMap, pageAvail, pageLoans,
                   lockQueue, jobPc, jobPage, faults, acquiredState, waited>>
    /\ UNCHANGED notPool

\* Page.stopScreencast, called once screencastCompleted has arrived
stopScreencast(j) ==
    /\ jobPc[j] = "holding"
    /\ pageState[jobPage[j]] = "CAPTURING"
    /\ pageState' = [pageState EXCEPT ![jobPage[j]] = "STOPPED"]
    /\ UNCHANGED <<browserCount, browserAvail, checkMap, pageAvail, pageLoans,
                   lockQueue, jobPc, jobPage, faults, acquiredState, waited>>
    /\ UNCHANGED notPool

\* Page.release(): reset() stops a capture and navigates to about:blank
\* (`ok`: the navigation succeeds; it cannot on a closed tab), sets READY,
\* then the page pool takes the page back if it is on loan
release(j, ok) ==
    /\ jobPc[j] = "holding"
    /\ ok \/ faults < MaxFaults
    /\ ok => jobPage[j][1] \notin closedBrowsers
    /\ LET pg == jobPage[j]
           b == pg[1]
       IN IF ~ok \/ pageState[pg] = "CLOSED"
          THEN /\ pageState' = [pageState EXCEPT ![pg] =
                                    IF @ = "CAPTURING" THEN "STOPPED" ELSE @]
               /\ UNCHANGED <<pageAvail, pageLoans>>
          ELSE /\ pageState' = [pageState EXCEPT ![pg] = "READY"]
               /\ IF pg \in pageLoans[b]
                  THEN /\ pageLoans' = [pageLoans EXCEPT ![b] = @ \ {pg}]
                       /\ pageAvail' = [pageAvail EXCEPT ![b] = Append(@, pg)]
                  ELSE UNCHANGED <<pageAvail, pageLoans>>
    /\ jobPc' = [jobPc EXCEPT ![j] = "done"]
    /\ waited' = IF lockQueue # <<>> /\ ~CanAcquireBrowser
                 THEN waited \cup {Head(lockQueue)} ELSE waited
    /\ faults' = IF ok THEN faults ELSE faults + 1
    /\ UNCHANGED <<browserCount, browserAvail, checkMap, lockQueue, jobPage,
                   acquiredState>>
    /\ UNCHANGED notPool

\* mutant of Releasable: the closures of #checkMap never release a browser
ReleasableNever == {b \in checkMap : FALSE}

\* mutant of Releasable: the closures release their browser busy or not
ReleasableBusyOrNot == checkMap

\* the #checkMap closures that release their browser: it is no longer busy
Releasable == {b \in checkMap : ~isBusy(pageLoans[b])}

\* #checker(): every registered browser that is no longer busy is released
\* to the browser pool and its entry deleted
checker ==
    LET free == Releasable
    IN /\ free # {}
       /\ browserAvail' = browserAvail \o SetToSeq(free)
       /\ checkMap' = checkMap \ free
       /\ UNCHANGED <<browserCount, pageState, pageAvail, pageLoans, lockQueue,
                      jobPc, jobPage, faults, acquiredState, waited>>
       /\ UNCHANGED notPool

\* #captureFrame: beginFrame does not answer within its timeout
beginFrameTimeout(pg) ==
    /\ pageState[pg] = "CAPTURING"
    /\ faults < MaxFaults
    /\ faults' = faults + 1
    /\ pageState' = [pageState EXCEPT ![pg] = "UNAVAILABLED"]
    /\ UNCHANGED <<browserCount, browserAvail, checkMap, pageAvail, pageLoans,
                   lockQueue, jobPc, jobPage, acquiredState, waited>>
    /\ UNCHANGED notPool

\* #emitCrashed: the tab reports "error", idle or not
emitCrashed(pg) ==
    /\ pageState[pg] \in {"READY", "CAPTURING", "STOPPED"}
    /\ faults < MaxFaults
    /\ faults' = faults + 1
    /\ pageState' = [pageState EXCEPT ![pg] = "UNAVAILABLED"]
    /\ UNCHANGED <<browserCount, browserAvail, checkMap, pageAvail, pageLoans,
                   lockQueue, jobPc, jobPage, acquiredState, waited>>
    /\ UNCHANGED notPool

\* Page.close(), on the tab's "close": CLOSED, then #pagePool.destroy(page),
\* which removes a page on loan and rejects for a page that is not
close(pg) ==
    /\ pageState[pg] \notin {"none", "CLOSED"}
    /\ faults < MaxFaults
    /\ faults' = faults + 1
    /\ pageState' = [pageState EXCEPT ![pg] = "CLOSED"]
    /\ pageLoans' = [pageLoans EXCEPT ![pg[1]] = @ \ {pg}]
    /\ UNCHANGED <<browserCount, browserAvail, checkMap, pageAvail, lockQueue,
                   jobPc, jobPage, acquiredState, waited>>
    /\ UNCHANGED notPool

\* the default min of the browser pool and of every page pool
numBrowserMin == 1
numPageMin == 1

\* #createBrowser fails while the job at the head of the lock needs a new
\* browser. A warmed-up pool creates it for the queued acquire(), and the
\* factoryCreateError handler rejects that client. The first acquirePage()
\* is still in warmup(): start() creates numBrowserMin browsers, the handler
\* finds no client, and ready() polls for available >= min for ever, with
\* the "acquirePage" lock held.
createBrowserFailed(j) ==
    /\ lockQueue # <<>> /\ Head(lockQueue) = j
    /\ jobPc[j] = "queued"
    /\ browserAvail = <<>> /\ browserCount < numBrowserMax
    /\ faults < MaxFaults
    /\ faults' = faults + 1
    /\ IF browserCount = 0 /\ numBrowserMin > 0
       THEN /\ jobPc' = [jobPc EXCEPT ![j] = "hung"]
            /\ UNCHANGED lockQueue
       ELSE /\ jobPc' = [jobPc EXCEPT ![j] = "rejected"]
            /\ lockQueue' = Tail(lockQueue)
    /\ UNCHANGED <<browserCount, browserAvail, checkMap, pageState, pageAvail,
                   pageLoans, jobPage, acquiredState, waited>>
    /\ UNCHANGED notPool

\* #createPage fails (newPage() or page.init() rejects; on a CLOSED browser it
\* always does). For a browser taken from the browser pool the page pool
\* creates the page for the queued acquire() and the handler rejects it:
\* ResourcePool.acquirePage() throws at `await browser.acquirePage()` with
\* the browser still on loan. For a browser being created the page is one of
\* the numPageMin pages of #warmupPagePool: Browser.init() waits in ready()
\* for ever, and so does the acquirePage() waiting for the browser.
createPageFailed(j) ==
    /\ lockQueue # <<>> /\ Head(lockQueue) = j
    /\ jobPc[j] = "queued"
    /\ CanAcquireBrowser
    /\ IF browserAvail = <<>>
       THEN /\ numPageMin > 0
            /\ faults < MaxFaults
            /\ faults' = faults + 1
            /\ jobPc' = [jobPc EXCEPT ![j] = "hung"]
            /\ UNCHANGED <<browserAvail, lockQueue, jobPage>>
       ELSE LET b == Head(browserAvail)
            IN /\ pageAvail[b] = <<>> /\ HasSpareCapacity(b)
               /\ b \in closedBrowsers \/ faults < MaxFaults
               /\ faults' = IF b \in closedBrowsers THEN faults ELSE faults + 1
               /\ jobPc' = [jobPc EXCEPT ![j] = "rejected"]
               /\ jobPage' = [jobPage EXCEPT ![j] = <<b, 0>>]
               /\ browserAvail' = Tail(browserAvail)
               /\ lockQueue' = Tail(lockQueue)
    /\ UNCHANGED <<browserCount, checkMap, pageState, pageAvail, pageLoans,
                   acquiredState, waited>>
    /\ UNCHANGED notPool

\* the pages #pagePool.clear() destroys: the idle ones
ClearedPages(b) == {pageAvail[b][i] : i \in DOMAIN pageAvail[b]}

\* Browser.close(), on the browser's "disconnected": CLOSED, then
\* #pagePool.clear(), whose destroy callback is Page.close(), then
\* ResourcePool.destoryBrowser(), which drops the #checkMap entry and has the
\* browser pool destroy the browser (it rejects for a browser not on loan,
\* which stays in the pool)
closeBrowser(b) ==
    /\ b \in 1..browserCount
    /\ b \notin closedBrowsers
    /\ faults < MaxFaults
    /\ faults' = faults + 1
    /\ closedBrowsers' = closedBrowsers \cup {b}
    /\ pageState' = [pg \in Pages |->
                        IF pg \in ClearedPages(b) THEN "CLOSED" ELSE pageState[pg]]
    /\ pageAvail' = [pageAvail EXCEPT ![b] = <<>>]
    /\ checkMap' = checkMap \ {b}
    /\ UNCHANGED <<browserCount, browserAvail, pageLoans, lockQueue, jobPc, jobPage,
                   acquiredState, waited>>
    /\ UNCHANGED <<synthVars, ctxVars, mediaVars, hostVars, timerHist, extVars,
                   lastRequest, issuedIds, packRun, pre,
                   synthesizePc, lateVars>>

(***************************************************************************)
(* A preprocessor task (Task, DownloadTask) under #dispatchTasks, which    *)
(* removes the tasks that canRemove() and starts those that canStart().    *)
(***************************************************************************)
\* options.retryFetchs and options.retryDelay given to the task
RetryFetchsSet == {Undef, 0, 1, 2}
RetryDelaySet == {1, 2}

\* a || b on numbers and undefined
JsOr(a, b) == IF a = Undef \/ a = NaN \/ a = 0 THEN b ELSE a

\* DownloadTask constructor: this.retryCount = retryFetchs || 2
retryCountOf(retryFetchs) == JsOr(retryFetchs, 2)

\* Task.canStart()
canStart(t, now) ==
    /\ t.state = "WAITING"
    /\ ~(t.errors > t.retryCount)
    /\ ~JsLt(now, JsAdd(t.errorTime, t.retryDelay))

\* Task.canRemove()
canRemove(t) == t.state = "COMPLETED" \/ t.errors > t.retryCount

InitTask ==
    /\ task = [created |-> FALSE, active |-> FALSE, state |-> "WAITING",
               running |-> FALSE, retryFetchs |-> Undef, retryCount |-> 0,
               retryDelay |-> 0, errors |-> 0, errorTime |-> Undef,
               starts |-> 0, emitted |-> 0, startedAt |-> Undef, failedAt |-> Undef]
    /\ taskNow = 0

\* new DownloadTask(options), pushed to downloadTasks
NewTask(retryFetchs, retryDelay) ==
    /\ ~task.created
    /\ task' = [task EXCEPT !.created = TRUE, !.active = TRUE,
                            !.retryFetchs = retryFetchs,
                            !.retryCount = retryCountOf(retryFetchs),
                            !.retryDelay = retryDelay]
    /\ UNCHANGED taskNow
    /\ UNCHANGED <<sideVars, synthVars, ctxVars, mediaVars, hostVars, timerHist, poolVars,
                   taVars, abortCalled, hostPage, fetchVars, chunkVars>>

\* one pass of #dispatchTasks over the task
dispatchTasks ==
    /\ task.active
    /\ IF canRemove(task)
       THEN task' = [task EXCEPT !.active = FALSE]
       ELSE /\ canStart(task, taskNow)
            /\ task' = [task EXCEPT !.state = "EXECUTING", !.running = TRUE,
                                    !.starts = @ + 1, !.startedAt = taskNow,
                                    !.failedAt = task.errorTime]
    /\ UNCHANGED taskNow
    /\ UNCHANGED <<sideVars, synthVars, ctxVars, mediaVars, hostVars, timerHist, poolVars,
                   taVars, abortCalled, hostPage, fetchVars, chunkVars>>

\* the work of the task settles: _emitCompleted(), or _emitError(err)
TaskSettled(ok) ==
    /\ task.running
    /\ IF ok
       THEN task' = [task EXCEPT !.running = FALSE, !.state = "COMPLETED"]
       ELSE task' = [task EXCEPT
                !.running = FALSE,
                !.errors = @ + 1,
                !.errorTime = taskNow,
                !.state = IF task.errors + 1 <= task.retryCount THEN "WAITING" ELSE @,
                !.emitted = IF task.errors + 1 <= task.retryCount THEN @ ELSE @ + 1]
    /\ UNCHANGED taskNow
    /\ UNCHANGED <<sideVars, synthVars, ctxVars, mediaVars, hostVars, timerHist, poolVars,
                   taVars, abortCalled, hostPage, fetchVars, chunkVars>>

\* time passes
TaskTick ==
    /\ task.created
    /\ taskNow < MaxTaskClock
    /\ taskNow' = taskNow + 1
    /\ UNCHANGED task
    /\ UNCHANGED <<sideVars, synthVars, ctxVars, mediaVars, hostVars, timerHist, poolVars,
                   taVars, abortCalled, hostPage, fetchVars, chunkVars>>

(***************************************************************************)
(* The in-page fetch helper: fetch(url, options, _retryIndex). Each call   *)
(* creates its own promise; a retry is a new call from a real timer.       *)
(***************************************************************************)
\* options.retryFetchs and options.retryDelay given by the caller
FetchRetrySet == {Undef, 0, 1}
FetchDelaySet == {1, 2}
\* what the browser's fetch does: a response status, or 0 for a network error
FetchStatusSet == {0, 200, 404, 500}

\* a destructuring default: const { name = dflt } = options
DefaultTo(x, dflt) == IF x = Undef THEN dflt ELSE x

\* the .catch is reached: fetch rejected, or the .then threw on status >= 500
FetchFails(status) == status = 0 \/ status >= 500

InitFetch ==
    /\ fetchCall = [phase |-> "idle", retryFetchs |-> 0, retryDelay |-> 0,
                    retryIndex |-> 0, promises |-> <<>>, status |-> Undef,
                    startedAt |-> Undef, failedAt |-> Undef]
    /\ fetchNow = 0

\* the caller calls fetch(url, options)
fetch(retryFetchs, retryDelay) ==
    /\ fetchCall.phase = "idle"
    /\ fetchCall' = [fetchCall EXCEPT
           !.phase = "inflight",
           !.retryFetchs = DefaultTo(retryFetchs, 2),
           !.retryDelay = DefaultTo(retryDelay, 500),
           !.promises = <<"pending">>,
           !.startedAt = fetchNow]
    /\ UNCHANGED fetchNow
    /\ UNCHANGED <<sideVars, synthVars, ctxVars, mediaVars, hostVars, timerHist, poolVars,
                   taVars, abortCalled, hostPage, taskVars, chunkVars>>

\* the browser's fetch of the current attempt settles with `status`: the
\* promise of this attempt is resolved or rejected, or a retry is scheduled
FetchSettled(status) ==
    /\ fetchCall.phase = "inflight"
    /\ LET i == fetchCall.retryIndex + 1
       IN fetchCall' =
            IF FetchFails(status)
            THEN IF fetchCall.retryIndex >= fetchCall.retryFetchs
                 THEN [fetchCall EXCEPT !.phase = "settled", !.status = status,
                                        !.promises[i] = "rejected"]
                 ELSE [fetchCall EXCEPT !.phase = "backoff", !.status = status,
                                        !.failedAt = fetchNow]
            ELSE [fetchCall EXCEPT !.phase = "settled", !.status = status,
                                   !.promises[i] = IF status >= 400 THEN "null"
                                                   ELSE "response"]
    /\ UNCHANGED fetchNow
    /\ UNCHANGED <<sideVars, synthVars, ctxVars, mediaVars, hostVars, timerHist, poolVars,
                   taVars, abortCalled, hostPage, taskVars, chunkVars>>

\* the timer of ____setTimeout(..., retryDelay) fires: this.fetch(url,
\* options, _retryIndex + 1), whose promise nobody holds
FetchRetry ==
    /\ fetchCall.phase = "backoff"
    /\ fetchNow >= fetchCall.failedAt + fetchCall.retryDelay
    /\ fetchCall' = [fetchCall EXCEPT
           !.phase = "inflight",
           !.retryIndex = @ + 1,
           !.promises = Append(@, "pending"),
           !.startedAt = fetchNow]
    /\ UNCHANGED fetchNow
    /\ UNCHANGED <<sideVars, synthVars, ctxVars, mediaVars, hostVars, timerHist, poolVars,
                   taVars, abortCalled, hostPage, taskVars, chunkVars>>

\* time passes
FetchTick ==
    /\ fetchCall.phase # "idle"
    /\ fetchNow < MaxFetchClock
    /\ fetchNow' = fetchNow + 1
    /\ UNCHANGED fetchCall
    /\ UNCHANGED <<sideVars, synthVars, ctxVars, mediaVars, hostVars, timerHist, poolVars,
                   taVars, abortCalled, hostPage, taskVars, chunkVars>>

(***************************************************************************)
(* ChunkSynthesizer: VideoChunks are input one by one, start() shifts the  *)
(* audios of each chunk by the chunk's offset and renders the chunks that  *)
(* are not completed yet.                                                  *)
(***************************************************************************)
\* the fps all chunks share, and what a chunk is given
ChunkFps == 30
ChunkDurationSet == {1000, 1500}
ChunkTransitionSet == {Undef, 500, 2000}
ChunkAudioSet == {<<>>, <<200>>}
RuntimeAudioSet == {0, 300}

\* VideoChunk.transitionDuration
transitionDuration(chunk) == IF chunk.transition = Undef THEN 0 ELSE chunk.transition

\* Synthesizer.getOutputDuration(): Math.floor(_frameCount / fps) * 1000 once
\* frames were written, the configured duration before
getOutputDuration(duration, frameCount, fps) ==
    IF fps = 0 \/ frameCount = 0 THEN duration ELSE (frameCount \div fps) * 1000

\* VideoChunk.getOutputDuration()
chunkOutputDuration(chunk) ==
    getOutputDuration(chunk.duration, chunk.frameCount, ChunkFps) - transitionDuration(chunk)

RECURSIVE OffsetOf(_, _)
\* offsetTime of start() when it reaches the k-th chunk of cs
OffsetOf(cs, k) ==
    IF k <= 1 THEN 0 ELSE OffsetOf(cs, k - 1) + chunkOutputDuration(cs[k - 1])

RECURSIVE ShiftedAudios(_, _)
\* the audios start() adds for the first k chunks of cs
ShiftedAudios(cs, k) ==
    IF k = 0 THEN <<>>
    ELSE ShiftedAudios(cs, k - 1) \o
         [i \in DOMAIN cs[k].audios |->
             [chunk |-> k, local |-> cs[k].audios[i],
              startTime |-> cs[k].audios[i] + OffsetOf(cs, k)]]

InitChunks ==
    /\ chunks = <<>>
    /\ chunkSynth = [duration |-> 0, started |-> FALSE, audios |-> <<>>, emitted |-> 0]

\* ChunkSynthesizer.input(chunk, transition); `rendered`: the chunk has
\* already been synthesized on its own
ChunkInput(duration, rendered, transition, audios) ==
    /\ ~chunkSynth.started
    /\ Len(chunks) < MaxChunks
    /\ LET chunk == [duration |-> duration,
                     frameCount |-> IF rendered
                                    THEN durationToFrameCount(duration, ChunkFps) ELSE 0,
                     transition |-> transition,
                     audios |-> audios]
       IN /\ chunks' = Append(chunks, chunk)
          /\ chunkSynth' = [chunkSynth EXCEPT !.duration = @ + chunkOutputDuration(chunk)]
    /\ UNCHANGED <<sideVars, synthVars, ctxVars, mediaVars, hostVars, timerHist, poolVars,
                   taVars, abortCalled, hostPage, taskVars, fetchVars>>

\* ChunkSynthesizer.start()
ChunkStart ==
    /\ ~chunkSynth.started
    /\ Len(chunks) > 0
    /\ chunkSynth' = [chunkSynth EXCEPT !.started = TRUE,
                                        !.audios = ShiftedAudios(chunks, Len(chunks))]
    /\ UNCHANGED chunks
    /\ UNCHANGED <<sideVars, synthVars, ctxVars, mediaVars, hostVars, timerHist, poolVars,
                   taVars, abortCalled, hostPage, taskVars, fetchVars>>

\* the k-th chunk, rendering, emits audioAdd: the handler renderChunk
\* installed adds the audio shifted by the offset start() passed to it
ChunkAudioAdd(k, local) ==
    /\ chunkSynth.started
    /\ k \in DOMAIN chunks
    /\ chunks[k].frameCount = 0
    /\ chunkSynth.emitted < MaxRuntimeAudios
    /\ chunkSynth' = [chunkSynth EXCEPT
           !.emitted = @ + 1,
           !.audios = Append(@, [chunk |-> k, local |-> local,
                                 startTime |-> local + OffsetOf(chunks, k)])]
    /\ UNCHANGED chunks
    /\ UNCHANGED <<sideVars, synthVars, ctxVars, mediaVars, hostVars, timerHist, poolVars,
                   taVars, abortCalled, hostPage, taskVars, fetchVars>>

(***************************************************************************)
(* ChunkSynthesizer._createVideoEncoder: the loop over the chunks that     *)
(* builds one xfade filter per boundary whose source chunk (the chunk      *)
(* before the boundary) has a transition. The filter text carries seconds  *)
(* with two decimals; the model keeps the hundredths as an integer.        *)
(***************************************************************************)
\* the durations and transition durations (ms) of the chunks of a splice
SpliceDurationSet == {1000, 1005}
SpliceTransitionSet == {Undef, 500, 255}

\* Math.floor(ms / 1000 * 100), the hundredths of a second that
\* `${Math.floor(ms / 1000 * 100) / 100}` prints
Hundredths(ms) == (ms * 100) \div 1000

\* mutant of offsetStep: the transition is not taken off
offsetStepWhole(lastChunk) == lastChunk.duration

\* what one boundary adds to durationOffset
offsetStep(lastChunk) ==
    IF lastChunk.transition # Undef
    THEN lastChunk.duration - lastChunk.transition
    ELSE lastChunk.duration

RECURSIVE durationOffset(_, _)
\* durationOffset after the iterations 0..i of the loop (cs[i] is lastChunk
\* on iteration i)
durationOffset(cs, i) ==
    IF i = 0 THEN 0 ELSE durationOffset(cs, i - 1) + offsetStep(cs[i])

RECURSIVE XfadeFilters(_, _)
\* the xfade filters the iterations 0..i append to complexFilter
XfadeFilters(cs, i) ==
    IF i = 0 THEN <<>>
    ELSE XfadeFilters(cs, i - 1) \o
         (IF cs[i].transition # Undef
          THEN <<[source |-> i,
                  duration |-> Hundredths(cs[i].transition),
                  offset |-> Hundredths(durationOffset(cs, i))]>>
          ELSE <<>>)

InitSplice == spliceFilters = [built |-> FALSE, filters |-> <<>>]

\* _createVideoEncoder(), called once by start() of the synthesizer
createVideoEncoder ==
    /\ chunkSynth.started
    /\ ~spliceFilters.built
    /\ spliceFilters' = [built |-> TRUE,
                         filters |-> XfadeFilters(chunks, Len(chunks) - 1)]
    /\ UNCHANGED <<synthVars, ctxVars, mediaVars, hostVars, timerHist, poolVars,
                   extVars, lastRequest, issuedIds, closedBrowsers, packRun, pre,
                   synthesizePc, screencastOptions, downloads, canvas>>

(***************************************************************************)
(* Page.startScreencast completes its options: a duration gives the frame  *)
(* count, and otherwise a frame count gives the duration.  The quotient    *)
(* frameCount / fps is kept exact, as numerator and denominator.           *)
(***************************************************************************)
OptionFpsSet == {24, 25, 30, 60}
OptionDurationSet == {Undef, 40, 1000}
OptionFrameCounts == {Undef} \cup 1..MaxOptionFrames \cup {1000, 2500}

Ratio(num, den) == [num |-> num, den |-> den]

\* util.frameCountToDuration(frameCount, fps) = frameCount / fps
frameCountToDuration(frameCount, fps) == Ratio(frameCount, fps)

\* util.durationToFrameCount of a duration that is a quotient
durationToFrameCountOf(q, fps) == (q.num * fps) \div (q.den * 1000)

\* the duration and frameCount of the config Page.startScreencast sends
ScreencastConfig(fps, duration, frameCount) ==
    IF IsNumber(duration)
    THEN [duration |-> Ratio(duration, 1),
          frameCount |-> durationToFrameCount(duration, fps)]
    ELSE IF IsNumber(frameCount)
    THEN [duration |-> frameCountToDuration(frameCount, fps),
          frameCount |-> frameCount]
    ELSE [duration |-> Undef, frameCount |-> Undef]

InitOptions == screencastOptions = [phase |-> "idle"]

\* the caller chooses fps, duration and frameCount
OptionsInput(fps, duration, frameCount) ==
    /\ screencastOptions.phase = "idle"
    /\ screencastOptions' = [phase |-> "given", fps |-> fps, duration |-> duration,
                             frameCount |-> frameCount]
    /\ UNCHANGED <<synthVars, ctxVars, mediaVars, hostVars, timerHist, poolVars,
                   extVars, lastRequest, issuedIds, closedBrowsers, packRun, pre,
                   synthesizePc, spliceFilters, downloads, canvas>>

\* startScreencast(options) up to the config it injects into the page
startScreencastOptions ==
    /\ screencastOptions.phase = "given"
    /\ screencastOptions' =
          [phase |-> "sent", fps |-> screencastOptions.fps,
           duration |-> screencastOptions.duration,
           frameCount |-> screencastOptions.frameCount,
           config |-> ScreencastConfig(screencastOptions.fps,
                                       screencastOptions.duration,
                                       screencastOptions.frameCount)]
    /\ UNCHANGED <<synthVars, ctxVars, mediaVars, hostVars, timerHist, poolVars,
                   extVars, lastRequest, issuedIds, closedBrowsers, packRun, pre,
                   synthesizePc, spliceFilters, downloads, canvas>>

(***************************************************************************)
(* DownloadTask: several tasks of one URL.  _downloadFile takes the lock   *)
(* of the URL, returns the cached file when it may, and otherwise fetches  *)
(* into filePath.tmp and moves that file to filePath.                      *)
(***************************************************************************)
DownloadTasks == 1..NumDownloads
\* Task options.retryCount as the model runs it (the default is 2)
downloadRetryCount == 1
\* path.join(tmpDirPath, util.urlToPath(url)), the same for every task of the URL
FilePath == "filePath"

InitDownloads ==
    downloads = [state |-> [t \in DownloadTasks |-> "none"],
                 ignoreCache |-> [t \in DownloadTasks |-> FALSE],
                 errors |-> [t \in DownloadTasks |-> 0],
                 result |-> [t \in DownloadTasks |-> "none"],
                 holder |-> 0, queue |-> <<>>, step |-> "none",
                 fileExists |-> FALSE,
                 fetches |-> 0, fetched |-> 0, fetchesOfCached |-> 0]

downloadsFrame ==
    UNCHANGED <<synthVars, ctxVars, mediaVars, hostVars, timerHist, poolVars,
                extVars, lastRequest, issuedIds, closedBrowsers, packRun, pre,
                synthesizePc, spliceFilters, screencastOptions, canvas>>

\* new DownloadTask({ url, ignoreCache })
DownloadTaskNew(t, ignoreCache) ==
    /\ downloads.state[t] = "none"
    /\ \A k \in 1..(t - 1) : downloads.state[k] # "none"
    /\ downloads' = [downloads EXCEPT !.state[t] = "WAITING",
                                      !.ignoreCache[t] = ignoreCache]
    /\ downloadsFrame

\* the lock once its holder is done: the next waiter, if any, runs
Released(d) ==
    IF d.queue = <<>>
    THEN [d EXCEPT !.holder = 0, !.step = "none"]
    ELSE [d EXCEPT !.holder = Head(d.queue), !.queue = Tail(d.queue),
                   !.step = "pathExists"]

\* task.start() by the dispatcher: _downloadFile asks for the lock of the URL
DownloadStart(t) ==
    /\ downloads.state[t] = "WAITING"
    /\ downloads.errors[t] <= downloadRetryCount
    /\ downloads' =
          IF downloads.holder = 0
          THEN [downloads EXCEPT !.state[t] = "EXECUTING", !.holder = t,
                                 !.step = "pathExists"]
          ELSE [downloads EXCEPT !.state[t] = "EXECUTING",
                                 !.queue = Append(@, t)]
    /\ downloadsFrame

\* !this.ignoreCache && await fs.pathExists(filePath)
CacheMissAlways(d, t) == FALSE
CacheHit(d, t) == ~d.ignoreCache[t] /\ d.fileExists

\* _emitCompleted({ filePath })
Completed(d, t) == [d EXCEPT !.state[t] = "COMPLETED", !.result[t] = FilePath]

\* _emitError(err): WAITING again while retries are left
Errored(d, t) ==
    [d EXCEPT !.errors[t] = @ + 1,
              !.state[t] = IF d.errors[t] + 1 <= downloadRetryCount
                           THEN "WAITING" ELSE "ERROR"]

\* the holder of the lock has looked for the cached file
DownloadPathExists ==
    /\ downloads.holder # 0
    /\ downloads.step = "pathExists"
    /\ LET t == downloads.holder
       IN downloads' =
              IF CacheHit(downloads, t)
              THEN Completed(Released(downloads), t)
              ELSE [downloads EXCEPT !.step = "download",
                       !.fetches = @ + 1,
                       !.fetchesOfCached = IF downloads.fileExists /\ ~downloads.ignoreCache[t]
                                           THEN @ + 1 ELSE @]
    /\ downloadsFrame

\* util.download() has ended; fs.move() refuses a destination that exists
DownloadEnded(ok) ==
    /\ downloads.holder # 0
    /\ downloads.step = "download"
    /\ LET t == downloads.holder
       IN downloads' =
              IF ok /\ ~downloads.fileExists
              THEN [Completed(Released(downloads), t) EXCEPT
                        !.fileExists = TRUE, !.fetched = @ + 1]
              ELSE IF ok
              THEN [Errored(Released(downloads), t) EXCEPT !.fetched = @ + 1]
              ELSE Errored(Released(downloads), t)
    /\ downloadsFrame

(***************************************************************************)
(* VideoCanvas: the decoder hands its frames, in order, to _emitNewFrame;  *)
(* seek() asks _acquireFrame for the frame of its time and draws it.  The  *)
(* capture loop awaits each seek and its time only grows, so the indexes   *)
(* asked for grow.  A frame is "none" (no entry), "open" or "closed".      *)
(***************************************************************************)
FrameIndexes == 0..(MaxVideoFrames - 1)

InitCanvas ==
    canvas = [frames |-> [i \in FrameIndexes |-> "none"],
              waitFrameIndex |-> Undef, waitFrameCallback |-> FALSE,
              decodedFrameIndex |-> 0, frameIndex |-> Undef,
              seeking |-> "no", asked |-> Undef, acquired |-> <<>>]

canvasFrame ==
    UNCHANGED <<synthVars, ctxVars, mediaVars, hostVars, timerHist, poolVars,
                extVars, lastRequest, issuedIds, closedBrowsers, packRun, pre,
                synthesizePc, spliceFilters, screencastOptions, downloads>>

\* _clearUnclosedFrames(): every frame closed, this.frames = []
ClearedFrames == [i \in FrameIndexes |-> "none"]

\* seek() past _acquireFrame: the frame is drawn, closed and its entry nulled
Drawn(c, wanted) ==
    [c EXCEPT !.acquired = Append(@, [index |-> wanted,
                                      frame |-> c.frames[wanted]]),
              !.frames[wanted] = "none",
              !.frameIndex = wanted,
              !.seeking = "no"]

\* seek(time) for the frame index Math.floor(time / frameInterval) = wanted,
\* up to the first await of _acquireFrame that does not return at once
seek(wanted) ==
    /\ canvas.seeking = "no"
    /\ canvas.frameIndex = Undef \/ canvas.frameIndex < wanted
    /\ canvas' =
          IF canvas.frames[wanted] # "none"
          THEN Drawn(canvas, wanted)
          ELSE [canvas EXCEPT !.frames = ClearedFrames,
                              !.waitFrameIndex = wanted,
                              !.waitFrameCallback = TRUE,
                              !.seeking = "parked", !.asked = wanted]
    /\ canvasFrame

\* what _emitNewFrame leaves of a frame older than the parked request
OlderFrameDropped == "none"
OlderFrame == "closed"

\* _emitNewFrame(frame), frame.index = decodedFrameIndex
emitNewFrame ==
    /\ canvas.decodedFrameIndex \in FrameIndexes
    /\ LET index == canvas.decodedFrameIndex
           stored == [canvas EXCEPT !.frames[index] = "open",
                                    !.decodedFrameIndex = @ + 1]
       IN canvas' =
              IF canvas.waitFrameCallback /\ canvas.waitFrameIndex = index
              THEN [stored EXCEPT !.waitFrameIndex = Undef,
                                  !.waitFrameCallback = FALSE,
                                  !.seeking = "resolved"]
              ELSE IF canvas.waitFrameIndex # Undef /\ index < canvas.waitFrameIndex
              THEN [stored EXCEPT !.frames[index] = OlderFrame]
              ELSE stored
    /\ canvasFrame

\* _acquireFrame resumes after its callback ran and returns frames[frameIndex]
acquireFrameResolved ==
    /\ canvas.seeking = "resolved"
    /\ canvas' = Drawn(canvas, canvas.asked)
    /\ canvasFrame

(***************************************************************************)
(* Page request interception: #envInit installs #requestHandle for every   *)
(* request of the tab; pauseScreencast, resumeScreencast and stopScreencast *)
(* move Page.state around CAPTURING.                                        *)
(***************************************************************************)
\* a request: isNavigationRequest(), frame() === mainFrame(), the route its
\* method and path select, and whether serving the route succeeds
Routes == {"preprocess", "font", "other"}
Requests == [nav : BOOLEAN, main : BOOLEAN, route : Routes, ok : BOOLEAN]

\* mutant of abortsRequest: only the requests of sub-frames are aborted
abortsRequestSubFrame(state, r) == state = "CAPTURING" /\ r.nav /\ ~r.main

\* the first test of #requestHandle
abortsRequest(state, r) == state = "CAPTURING" /\ r.nav /\ r.main

\* what #requestHandle does with the request
requestOutcome(state, r) ==
    IF abortsRequest(state, r) THEN "aborted"
    ELSE IF r.route = "preprocess" THEN (IF r.ok THEN "200" ELSE "500")
    ELSE IF r.route = "font" THEN (IF r.ok THEN "200" ELSE "404")
    ELSE "continued"

InitRequests == lastRequest = [handled |-> FALSE]

requestHandle(r) ==
    /\ lastRequest' = [handled |-> TRUE, state |-> hostState, request |-> r,
                       outcome |-> requestOutcome(hostState, r)]
    /\ UNCHANGED <<synthVars, ctxVars, mediaVars, hostVars, timerHist, poolVars,
                   extVars, issuedIds, closedBrowsers, packRun, pre,
                   synthesizePc, lateVars>>

\* Page.pauseScreencast()
pauseScreencast ==
    /\ hostState = "CAPTURING"
    /\ hostState' = "PAUSED"
    /\ UNCHANGED <<pageErrors, timedOut, taVars, abortCalled, taskVars, fetchVars,
                   chunkVars>>
    /\ UNCHANGED <<synthVars, ctxVars, mediaVars, hostVars, timerHist, poolVars,
                   sideVars>>

\* Page.resumeScreencast()
resumeScreencast ==
    /\ hostState = "PAUSED"
    /\ hostState' = "CAPTURING"
    /\ UNCHANGED <<pageErrors, timedOut, taVars, abortCalled, taskVars, fetchVars,
                   chunkVars>>
    /\ UNCHANGED <<synthVars, ctxVars, mediaVars, hostVars, timerHist, poolVars,
                   sideVars>>

\* Page.stopScreencast(), from any state: captureCtx.stopFlag = true, STOPPED
hostStopScreencast ==
    /\ hostState # "STOPPED"
    /\ hostState' = "STOPPED"
    /\ stopFlag' = TRUE
    /\ UNCHANGED <<pageErrors, timedOut, taVars, abortCalled, taskVars, fetchVars,
                   chunkVars>>
    /\ UNCHANGED <<currentTime, frameIndex, frameInterval, readyFlag, startFlag,
                   readyCallback, intervalCallbacks, timeoutCallbacks, timerId,
                   config, initDone, realClock, realTasks, loopPc>>
    /\ UNCHANGED <<synthVars, mediaVars, hostVars, timerHist, poolVars, sideVars>>

(***************************************************************************)
(* The video_preprocess payload: VideoProcessTask.#packData on the host,   *)
(* VideoCanvas._unpackData in the page. A data object is a sequence of     *)
(* fields in for-in order; a value is a buffer (its bytes), a JSON scalar  *)
(* or a JSON array of scalars. JSON text is kept at the level of tokens,   *)
(* one byte each: JSON.stringify writes them and JSON.parse reads them     *)
(* back; the framing around the text is byte for byte that of the code.    *)
(***************************************************************************)
MaxFields == 3

Bang == 33          \* "!", also the token of the JSON string "!"
BufferTag == 66     \* the token of the JSON string "buffer"
LBracket == 91
RBracket == 93
Comma == 44
Digit0 == 48
LBrace == 123
RBrace == 125

\* the key of field k: "a", "b", ...
PackKey(k) == 96 + k

\* the token of the JSON number n, apart from every character
NumberToken(n) == 1000 + n

BufferValues == {<<>>, <<7>>, <<Bang, 49>>}
ScalarValues == {<<116>>, <<NumberToken(5)>>, <<Bang>>}
ArrayValues ==
    {<<>>, <<NumberToken(1), NumberToken(2)>>,
     <<BufferTag, NumberToken(0), NumberToken(1)>>}

PackValues ==
    [kind : {"buffer"}, items : BufferValues]
        \cup [kind : {"scalar"}, items : ScalarValues]
        \cup [kind : {"array"}, items : ArrayValues]

DataObjects ==
    UNION {[1..n -> PackValues] : n \in 0..MaxFields}

\* the decimal digits of `${n}`, as characters
DigitChars(n) == [i \in DOMAIN Digits(n) |-> Digit0 + Digits(n)[i]]

\* mutant of nextOffset: bufferOffset is not advanced
nextOffsetStuck(offset, length) == offset

\* bufferOffset += data[key].length
nextOffset(offset, length) == offset + length

RECURSIVE OffsetBefore(_, _)
\* bufferOffset when the loop of #packData reaches field k
OffsetBefore(data, k) ==
    IF k = 1 THEN 0
    ELSE LET prev == OffsetBefore(data, k - 1)
         IN IF data[k - 1].kind = "buffer"
            THEN nextOffset(prev, Len(data[k - 1].items)) ELSE prev

\* obj[key] as #packData sets it
PackedField(data, k) ==
    IF data[k].kind = "buffer"
    THEN [kind |-> "array",
          items |-> <<BufferTag, NumberToken(OffsetBefore(data, k)),
                      NumberToken(OffsetBefore(data, k) + Len(data[k].items))>>]
    ELSE data[k]

RECURSIVE StringifyFields(_, _)
\* the text of fields 1..k of obj
StringifyFields(obj, k) ==
    IF k = 0 THEN <<>>
    ELSE StringifyFields(obj, k - 1) \o <<PackKey(k)>>
         \o (IF obj[k].kind = "array"
             THEN <<LBracket>> \o obj[k].items \o <<RBracket>>
             ELSE obj[k].items)
         \o <<Comma>>

\* JSON.stringify(obj)
Stringify(obj) == <<LBrace>> \o StringifyFields(obj, Len(obj)) \o <<RBrace>>

RECURSIVE ConcatBuffers(_, _)
\* the buffers pushed by #packData, fields 1..k
ConcatBuffers(data, k) ==
    IF k = 0 THEN <<>>
    ELSE ConcatBuffers(data, k - 1)
         \o (IF data[k].kind = "buffer" THEN data[k].items ELSE <<>>)

\* VideoProcessTask.#packData(data)
packData(data) ==
    LET obj == [k \in DOMAIN data |-> PackedField(data, k)]
        objBuffer == Stringify(obj)
    IN DigitChars(Len(objBuffer)) \o <<Bang>> \o objBuffer
       \o ConcatBuffers(data, Len(data))

\* the index of the first "!" of the bytes, 0 when there is none
DelimiterIndex(bytes) ==
    IF \E i \in DOMAIN bytes : bytes[i] = Bang
    THEN CHOOSE i \in DOMAIN bytes :
             bytes[i] = Bang /\ \A k \in 1..(i - 1) : bytes[k] # Bang
    ELSE 0

RECURSIVE ParseInt(_)
\* parseInt of a string of characters: NaN unless it starts with a digit
ParseInt(chars) ==
    IF chars = <<>> \/ chars[1] \notin Digit0..(Digit0 + 9) THEN NaN
    ELSE LET n == Len(chars)
             lead == IF n = 1 THEN NaN ELSE ParseInt(SubSeq(chars, 1, n - 1))
         IN IF chars[n] \notin Digit0..(Digit0 + 9) THEN lead
            ELSE IF \E i \in 1..n : chars[i] \notin Digit0..(Digit0 + 9) THEN lead
            ELSE (IF n = 1 THEN 0 ELSE 10 * lead) + chars[n] - Digit0

\* a JSON number token as the number it is; anything else adds up to NaN
NumberOf(items, i) ==
    IF i \in DOMAIN items /\ items[i] >= NumberToken(0)
    THEN items[i] - NumberToken(0) ELSE NaN

\* ArrayBuffer.slice(begin, end): NaN counts as 0, both ends are clamped
SliceBytes(bytes, begin, end) ==
    LET lo == IF IsNumber(begin) THEN begin ELSE 0
        hi == IF IsNumber(end) THEN end ELSE 0
        top == IF hi > Len(bytes) THEN Len(bytes) ELSE hi
    IN SubSeq(bytes, lo + 1, top)

RECURSIVE ParseFields(_)
\* the fields that a text between braces holds, in order
ParseFields(text) ==
    IF text = <<>> THEN <<>>
    ELSE IF text[2] = LBracket
    THEN LET closing == CHOOSE i \in 3..Len(text) :
                          text[i] = RBracket
                          /\ \A k \in 3..(i - 1) : text[k] # RBracket
         IN <<[kind |-> "array", items |-> SubSeq(text, 3, closing - 1)]>>
            \o ParseFields(SubSeq(text, closing + 2, Len(text)))
    ELSE <<[kind |-> "scalar", items |-> <<text[2]>>]>>
         \o ParseFields(SubSeq(text, 4, Len(text)))

\* JSON.parse(text)
Parse(text) == ParseFields(SubSeq(text, 2, Len(text) - 1))

\* VideoCanvas._unpackData(packedData): the object, or that it throws
unpackData(packed) ==
    LET delimiterIndex == DelimiterIndex(packed)
        objLength == ParseInt(SubSeq(packed, 1, delimiterIndex - 1))
    IN IF delimiterIndex = 0 THEN [thrown |-> TRUE, obj |-> <<>>]
       ELSE IF ~IsNumber(objLength) \/ objLength <= 0
               \/ objLength > Len(packed) - delimiterIndex
       THEN [thrown |-> TRUE, obj |-> <<>>]
       ELSE LET obj == Parse(SubSeq(packed, delimiterIndex + 1,
                                    delimiterIndex + objLength))
                rest == SubSeq(packed, delimiterIndex + objLength + 1, Len(packed))
            IN [thrown |-> FALSE,
                obj |-> [k \in DOMAIN obj |->
                    IF obj[k].kind = "array" /\ obj[k].items # <<>>
                       /\ obj[k].items[1] = BufferTag
                    THEN [kind |-> "buffer",
                          items |-> SliceBytes(rest, NumberOf(obj[k].items, 2),
                                               NumberOf(obj[k].items, 3))]
                    ELSE obj[k]]]

InitPack == packRun = [stage |-> "none"]

\* the host is given a data object to send
PackInput(data) ==
    /\ packRun.stage = "none"
    /\ packRun' = [stage |-> "input", data |-> data]
    /\ UNCHANGED <<synthVars, ctxVars, mediaVars, hostVars, timerHist, poolVars,
                   extVars, lastRequest, issuedIds, closedBrowsers, pre,
                   synthesizePc, lateVars>>

\* #packData on the host
Pack ==
    /\ packRun.stage = "input"
    /\ packRun' = [stage |-> "packed", data |-> packRun.data,
                   packed |-> packData(packRun.data)]
    /\ UNCHANGED <<synthVars, ctxVars, mediaVars, hostVars, timerHist, poolVars,
                   extVars, lastRequest, issuedIds, closedBrowsers, pre,
                   synthesizePc, lateVars>>

\* _unpackData in the page, on the response body
Unpack ==
    /\ packRun.stage = "packed"
    /\ packRun' = [stage |-> "unpacked", data |-> packRun.data,
                   packed |-> packRun.packed, out |-> unpackData(packRun.packed)]
    /\ UNCHANGED <<synthVars, ctxVars, mediaVars, hostVars, timerHist, poolVars,
                   extVars, lastRequest, issuedIds, closedBrowsers, pre,
                   synthesizePc, lateVars>>

(***************************************************************************)
(* The Preprocessor: two queues (download, process), each with its list of *)
(* active tasks, the dispatcher of the queue (#dispatchDownloadQueue,      *)
(* #dispatchProcessQueue) and the 0 ms loop #dispatchTasks. A dispatcher   *)
(* is an async function: it waits on a promise whose resolve function is   *)
(* the resume callback, and goes on in a microtask once it is called.      *)
(***************************************************************************)
NumTasks == 4
parallelDownloads == 1
parallelProcess == 2

TaskIds == 1..NumTasks
TaskKinds == {"download", "process"}

\* this.parallelDownloads, this.parallelProcess
parallelOf(kind) == IF kind = "download" THEN parallelDownloads ELSE parallelProcess

\* after the constructor: both dispatchers found their queue empty and wait
InitPre ==
    pre = [queue |-> [k \in TaskKinds |-> <<>>],
           active |-> [k \in TaskKinds |-> <<>>],
           resumeCallback |-> [k \in TaskKinds |-> TRUE],
           resumed |-> [k \in TaskKinds |-> FALSE],
           state |-> [t \in TaskIds |-> "none"],
           kind |-> [t \in TaskIds |-> "none"],
           added |-> 0,
           started |-> {}]

preFrame ==
    UNCHANGED <<synthVars, ctxVars, mediaVars, hostVars, timerHist, poolVars,
                extVars, lastRequest, issuedIds, closedBrowsers, packRun,
                synthesizePc, lateVars>>

\* addDownloadTask(task), addProcessTask(task)
addTask(kind) ==
    /\ pre.added < NumTasks
    /\ pre' = [pre EXCEPT
            !.added = @ + 1,
            !.state[pre.added + 1] = "WAITING",
            !.kind[pre.added + 1] = kind,
            !.queue[kind] = Append(@, pre.added + 1),
            !.resumeCallback[kind] = FALSE,
            !.resumed[kind] = @ \/ pre.resumeCallback[kind]]
    /\ preFrame

RECURSIVE QueueDispatchedAll(_, _, _)
\* mutant of QueueDispatched: the length of the active list is not looked at
QueueDispatchedAll(queue, active, limit) ==
    IF queue = <<>> THEN [queue |-> queue, active |-> active]
    ELSE QueueDispatchedAll(Tail(queue), Append(active, Head(queue)), limit)

RECURSIVE QueueDispatched(_, _, _)
\* the dispatcher from its entry until it waits: the queue and the active
\* list it leaves. The task it shifts is held in a local only.
QueueDispatched(queue, active, limit) ==
    IF queue = <<>> THEN [queue |-> queue, active |-> active]
    ELSE IF Len(active) >= limit THEN [queue |-> Tail(queue), active |-> active]
    ELSE QueueDispatched(Tail(queue), Append(active, Head(queue)), limit)

\* #dispatchDownloadQueue(), #dispatchProcessQueue(): the continuation
\* after the resume callback was called
dispatchQueue(kind) ==
    /\ pre.resumed[kind]
    /\ LET r == QueueDispatched(pre.queue[kind], pre.active[kind], parallelOf(kind))
       IN pre' = [pre EXCEPT
               !.queue[kind] = r.queue,
               !.active[kind] = r.active,
               !.resumed[kind] = FALSE,
               !.resumeCallback[kind] = TRUE]
    /\ preFrame

\* Task.canRemove(), Task.canStart() of a task that has retryCount 0
taskCanRemove(st) == st \in {"COMPLETED", "FAILED"}
taskCanStart(st) == st = "WAITING"

\* the tasks of the list that the filter keeps
KeptTasks(list) == SelectSeq(list, LAMBDA t : ~taskCanRemove(pre.state[t]))

\* the tasks of the list that the filter starts
StartedTasks(list) ==
    {list[i] : i \in {j \in DOMAIN list : taskCanStart(pre.state[list[j]])}}

\* #dispatchTasks(): one pass of the 0 ms loop. Microtasks run first.
preDispatchTasks ==
    /\ \A k \in TaskKinds : ~pre.resumed[k]
    /\ LET starting == UNION {StartedTasks(pre.active[k]) : k \in TaskKinds}
           wakes(k) == /\ Len(KeptTasks(pre.active[k])) < parallelOf(k)
                       /\ pre.resumeCallback[k]
       IN pre' = [pre EXCEPT
               !.active = [k \in TaskKinds |-> KeptTasks(pre.active[k])],
               !.state = [t \in TaskIds |->
                              IF t \in starting THEN "EXECUTING" ELSE pre.state[t]],
               !.started = @ \cup starting,
               !.resumeCallback = [k \in TaskKinds |->
                                       pre.resumeCallback[k] /\ ~wakes(k)],
               !.resumed = [k \in TaskKinds |-> wakes(k)]]
    /\ preFrame

\* the work of an executing task ends: _emitCompleted(), or _emitError(err)
\* with no retry left
preTaskSettled(t, ok) ==
    /\ pre.state[t] = "EXECUTING"
    /\ pre' = [pre EXCEPT !.state[t] = IF ok THEN "COMPLETED" ELSE "FAILED"]
    /\ preFrame

(***************************************************************************)
(* SingleVideo.#synthesize (ChunkVideo.#synthesize is the same code): the  *)
(* page is acquired, set up and told to capture; the host then waits for   *)
(* the "screencastCompleted" event, stops the screencast and releases the  *)
(* page. A throw of any awaited step is caught, and the catch releases.    *)
(***************************************************************************)
InitSynthesize == synthesizePc = "idle"

\* const page = await this.#acquirePage()
synthesizeAcquire ==
    /\ synthesizePc = "idle"
    /\ synthesizePc' = "acquired"
    /\ UNCHANGED <<synthVars, ctxVars, mediaVars, hostVars, timerHist, poolVars,
                   extVars, lastRequest, issuedIds, closedBrowsers, packRun, pre,
                   lateVars>>

\* setViewport, goto, pagePrepareFn or startScreencast throws: the catch
\* block releases the page and emits the error
synthesizeThrows ==
    /\ synthesizePc = "acquired"
    /\ ~readyFlag
    /\ synthesizePc' = "released"
    /\ UNCHANGED <<synthVars, ctxVars, mediaVars, hostVars, timerHist, poolVars,
                   extVars, lastRequest, issuedIds, closedBrowsers, packRun, pre,
                   lateVars>>

\* "screencastCompleted" has been emitted: page.stopScreencast(), then
\* page.release(), whose reset() leaves the page READY
synthesizeCompleted ==
    /\ synthesizePc = "acquired"
    /\ completedCount > 0
    /\ synthesizePc' = "released"
    /\ stopFlag' = TRUE
    /\ hostState' = "READY"
    /\ UNCHANGED <<pageErrors, timedOut, taVars, abortCalled, taskVars, fetchVars,
                   chunkVars>>
    /\ UNCHANGED <<currentTime, frameIndex, frameInterval, readyFlag, startFlag,
                   readyCallback, intervalCallbacks, timeoutCallbacks, timerId,
                   config, initDone, realClock, realTasks, loopPc>>
    /\ UNCHANGED <<synthVars, mediaVars, hostVars, timerHist, poolVars,
                   lastRequest, issuedIds, closedBrowsers, packRun, pre,
                   lateVars>>

(***************************************************************************)
(* Specifications.                                                         *)
(***************************************************************************)
\* a synthesizer of any buffer size; no page is capturing
InitExt ==
    /\ InitTimeActions
    /\ abortCalled = FALSE
    /\ hostState = "READY"
    /\ pageErrors = 0
    /\ timedOut = {}
    /\ InitTask
    /\ InitFetch
    /\ InitChunks
    /\ InitRequests
    /\ InitPack
    /\ InitPre
    /\ InitSynthesize
    /\ InitSplice
    /\ InitOptions
    /\ InitDownloads
    /\ InitCanvas

InitSynthOnly == InitSynth /\ InitCtx /\ InitPool /\ InitExt

SpecSynth == InitSynthOnly /\ [][NextSynth]_vars

\* a page just constructed; the synthesizer is idle
InitPage == IdleSynth /\ InitCtx /\ InitPool /\ InitExt

\* the ids page code holds: the virtual ones handed out so far, the real ones
HeldTimerIds == {id \in (0 - MaxTimers)..(0 - 1) : id >= timerId} \cup RealTimerIds

\* the steps of the host and of the chain started by the one start() of a capture
NextLoop ==
    \/ init
    \/ \E fps \in FpsSet, duration \in DurationSet, startTime \in StartTimeSet,
          autostart \in BOOLEAN : startScreencast(fps, duration, startTime, autostart)
    \/ (\A l \in Loops : loopPc[l] = "none") /\ start(1)
    \/ LoopMediaDone(1)
    \/ LoopSeekCSSDone(1)
    \/ LoopAdvance(1)
    \/ \E outcome \in FrameOutcomes : LoopCaptured(1, outcome)
    \/ \E outcome \in FrameOutcomes : LoopSkipped(1, outcome)

\* page code using the virtual timers, and the real event loop
NextTimers ==
    \/ NextLoop
    \/ \E now \in RealClockSet : dispatchBeforeStart(now)
    \/ \E d \in DelaySet : setTimeout(d)
    \/ \E d \in DelaySet : setInterval(d)
    \/ \E id \in HeldTimerIds : clearTimeout(id)
    \/ \E id \in HeldTimerIds : clearInterval(id)
    \/ RunCallback

SpecTimers == InitPage /\ [][NextTimers]_vars

\* a page with media elements: the medias load and seek as the loop ticks
NextMedia ==
    \/ NextLoop
    \/ \E el \in MediaElements : InsertElement(el)
    \/ \E i \in 1..MaxMedias, ok \in BOOLEAN : MediaLoaded(1, i, ok)
    \/ \E i \in 1..MaxMedias, ok \in BOOLEAN : MediaSeeked(1, i, ok)

SpecMedia == InitPage /\ [][NextMedia]_vars

\* the host drives the earlier capture context
NextLegacy ==
    \/ \E value \in FpsSet : LegacySetFPS(value)
    \/ \E value \in 1..MaxFrameCount : LegacySetFrameCount(value)
    \/ LegacyStart
    \/ \E ok \in BOOLEAN : LegacyCaptured(ok)

SpecLegacy == InitPage /\ [][NextLegacy]_vars

\* a job that registers time actions and captures
\* the CaptureContext of src/unnamed/part_001 before start(): the page sets
\* timers, the host sets fps and frame count
NextLegacyTimers ==
    \/ \E d \in DelaySet : LegacySetTimeout(d)
    \/ \E d \in DelaySet : LegacySetInterval(d)
    \/ \E value \in FpsSet : LegacySetFPS(value)
    \/ \E value \in 1..MaxFrameCount : LegacySetFrameCount(value)

SpecLegacyTimers == InitPage /\ [][NextLegacyTimers]_vars

NextCapture ==
    \/ NextLoop
    \/ \E keys \in SUBSET TimeActionKeys : registerTimeActions(keys)
    \/ abort

SpecCapture == InitPage /\ [][NextCapture]_vars

\* the preprocessor scheduling one task
\* a page whose capture is started, paused, resumed and stopped while its tab
\* issues requests
\* the page and the capture loop, while #synthesize holds the page: the
\* options give at least one frame and autostartRender keeps its default
synthesizeCapture ==
    /\ synthesizePc = "acquired"
    /\ \/ init
       \/ \E fps \in FpsSet, duration \in DurationSet, startTime \in StartTimeSet :
              /\ durationToFrameCount(duration, fps) > 0
              /\ startScreencast(fps, duration, startTime, TRUE)
       \/ LoopMediaDone(1)
       \/ LoopSeekCSSDone(1)
       \/ LoopAdvance(1)
       \/ \E outcome \in FrameOutcomes : LoopCaptured(1, outcome)
       \/ \E outcome \in FrameOutcomes : LoopSkipped(1, outcome)
       \/ abort

NextSynthesize ==
    \/ synthesizeAcquire
    \/ synthesizeThrows
    \/ synthesizeCapture
    \/ synthesizeCompleted

SpecSynthesize == InitPage /\ [][NextSynthesize]_vars

\* every awaited step of the host and of the page goes on when it can
SpecSynthesizeFair ==
    /\ SpecSynthesize
    /\ WF_vars(synthesizeCapture)
    /\ WF_vars(synthesizeCompleted)

\* captureCtx.start() called by page code, at any moment: each call that
\* finds readyFlag set begins a chain of nextFrame of its own
pageStart ==
    \E l \in Loops :
        /\ \A k \in 1..(l - 1) : loopPc[k] # "none"
        /\ start(l)

\* a capture whose page calls start() as often as it likes
NextStarts ==
    \/ init
    \/ \E fps \in FpsSet, duration \in DurationSet, startTime \in StartTimeSet,
          autostart \in BOOLEAN : startScreencast(fps, duration, startTime, autostart)
    \/ pageStart
    \/ \E l \in Loops : LoopMediaDone(l)
    \/ \E l \in Loops : LoopSeekCSSDone(l)
    \/ \E l \in Loops : LoopAdvance(l)
    \/ \E l \in Loops, outcome \in FrameOutcomes : LoopCaptured(l, outcome)
    \/ \E l \in Loops, outcome \in FrameOutcomes : LoopSkipped(l, outcome)

SpecStarts == InitPage /\ [][NextStarts]_vars

\* chunks are given to a ChunkSynthesizer, which is started and splices
NextSplice ==
    \/ \E duration \in SpliceDurationSet, rendered \in BOOLEAN,
          transition \in SpliceTransitionSet :
          ChunkInput(duration, rendered, transition, <<>>)
    \/ ChunkStart
    \/ createVideoEncoder

SpecSplice == InitPage /\ [][NextSplice]_vars

\* the options of one startScreencast call
NextOptions ==
    \/ \E fps \in OptionFpsSet, duration \in OptionDurationSet,
          frameCount \in OptionFrameCounts : OptionsInput(fps, duration, frameCount)
    \/ startScreencastOptions

SpecOptions == InitPage /\ [][NextOptions]_vars

\* download tasks of one URL, started whenever the dispatcher may
NextDownloads ==
    \/ \E t \in DownloadTasks, ignoreCache \in BOOLEAN : DownloadTaskNew(t, ignoreCache)
    \/ \E t \in DownloadTasks : DownloadStart(t)
    \/ DownloadPathExists
    \/ \E ok \in BOOLEAN : DownloadEnded(ok)

SpecDownloads == InitPage /\ [][NextDownloads]_vars

\* a video canvas sought by the capture loop while its decoder runs
NextCanvas ==
    \/ \E wanted \in FrameIndexes : seek(wanted)
    \/ emitNewFrame
    \/ acquireFrameResolved

SpecCanvas == InitPage /\ [][NextCanvas]_vars

NextRequests ==
    \/ init
    \/ \E fps \in FpsSet, duration \in DurationSet, startTime \in StartTimeSet,
          autostart \in BOOLEAN : startScreencast(fps, duration, startTime, autostart)
    \/ pauseScreencast
    \/ resumeScreencast
    \/ hostStopScreencast
    \/ \E r \in Requests : requestHandle(r)

SpecRequests == InitPage /\ [][NextRequests]_vars

NextPack ==
    \/ \E data \in DataObjects : PackInput(data)
    \/ Pack
    \/ Unpack

SpecPack == InitPage /\ [][NextPack]_vars

NextPre ==
    \/ \E kind \in TaskKinds : addTask(kind)
    \/ \E kind \in TaskKinds : dispatchQueue(kind)
    \/ preDispatchTasks
    \/ \E t \in TaskIds, ok \in BOOLEAN : preTaskSettled(t, ok)

SpecPre == InitPage /\ [][NextPre]_vars

\* the 0 ms loop keeps running, a resumed dispatcher goes on, work ends
SpecPreFair ==
    /\ SpecPre
    /\ WF_vars(preDispatchTasks)
    /\ \A kind \in TaskKinds : WF_vars(dispatchQueue(kind))
    /\ \A t \in TaskIds : WF_vars(\E ok \in BOOLEAN : preTaskSettled(t, ok))

NextTask ==
    \/ \E retryFetchs \in RetryFetchsSet, retryDelay \in RetryDelaySet :
          NewTask(retryFetchs, retryDelay)
    \/ dispatchTasks
    \/ \E ok \in BOOLEAN : TaskSettled(ok)
    \/ TaskTick

SpecTask == InitPage /\ [][NextTask]_vars

\* page code fetching one resource
NextFetch ==
    \/ \E retryFetchs \in FetchRetrySet, retryDelay \in FetchDelaySet :
          fetch(retryFetchs, retryDelay)
    \/ \E status \in FetchStatusSet : FetchSettled(status)
    \/ FetchRetry
    \/ FetchTick

SpecFetch == InitPage /\ [][NextFetch]_vars

\* a job composing chunks
\* time passes while the timer of a retry is pending, until it is due
FetchWait ==
    /\ fetchCall.phase = "backoff"
    /\ fetchNow < fetchCall.failedAt + fetchCall.retryDelay
    /\ fetchNow' = fetchNow + 1
    /\ UNCHANGED fetchCall
    /\ UNCHANGED <<sideVars, synthVars, ctxVars, mediaVars, hostVars, timerHist, poolVars,
                   taVars, abortCalled, hostPage, taskVars, chunkVars>>

NextFetchFair ==
    \/ NextFetch
    \/ FetchWait

\* the browser's fetch settles, and the real timer of a retry fires
SpecFetchFair ==
    /\ InitPage /\ [][NextFetchFair]_vars
    /\ WF_vars(\E status \in FetchStatusSet : FetchSettled(status))
    /\ WF_vars(FetchWait)
    /\ WF_vars(FetchRetry)

NextChunks ==
    \/ \E duration \in ChunkDurationSet, rendered \in BOOLEAN,
          transition \in ChunkTransitionSet, audios \in ChunkAudioSet :
          ChunkInput(duration, rendered, transition, audios)
    \/ ChunkStart
    \/ \E k \in 1..MaxChunks, local \in RuntimeAudioSet : ChunkAudioAdd(k, local)

SpecChunks == InitPage /\ [][NextChunks]_vars

\* jobs that acquire a page, capture and release it
NextJobs ==
    \/ \E j \in Jobs : JobRequest(j)
    \/ \E j \in Jobs : acquirePage(j)
    \/ \E j \in Jobs : PageStartScreencast(j)
    \/ \E j \in Jobs : stopScreencast(j)
    \/ \E j \in Jobs : release(j, TRUE)
    \/ checker

\* the same with tabs that time out, crash or close, and navigations that fail
NextPool ==
    \/ NextJobs
    \/ \E j \in Jobs : release(j, FALSE)
    \/ \E pg \in Pages : beginFrameTimeout(pg)
    \/ \E pg \in Pages : emitCrashed(pg)
    \/ \E pg \in Pages : close(pg)

SpecPool == InitPage /\ [][NextPool]_vars

\* jobs on browsers that disconnect, whose tabs then report "close" or not
NextPoolFaults ==
    \/ NextJobs
    \/ \E j \in Jobs : release(j, FALSE)
    \/ \E b \in Browsers : closeBrowser(b)
    \/ \E pg \in Pages : close(pg)
    \/ \E j \in Jobs : createPageFailed(j)

SpecPoolFaults == InitPage /\ [][NextPoolFaults]_vars

\* jobs on a pool whose browsers and pages may fail to be created
NextPoolCreate ==
    \/ NextJobs
    \/ \E j \in Jobs : createBrowserFailed(j)
    \/ \E j \in Jobs : createPageFailed(j)

SpecPoolCreate == InitPage /\ [][NextPoolCreate]_vars

\* every job goes on and the 5 s timer of #checker keeps firing
FairJobs ==
    /\ \A j \in Jobs : WF_vars(acquirePage(j))
    /\ \A j \in Jobs : WF_vars(PageStartScreencast(j))
    /\ \A j \in Jobs : WF_vars(stopScreencast(j))
    /\ \A j \in Jobs : WF_vars(release(j, TRUE))
    /\ WF_vars(checker)

SpecPoolFair == InitPage /\ [][NextJobs]_vars /\ FairJobs

(***************************************************************************)
(* C1: for any n frames passed to input() followed by endInput(), and any  *)
(* parallelWriteFrames >= 1, the data written to the encoder pipe is       *)
(* exactly those n frames, each once and in order.                         *)
(***************************************************************************)
C1_WrittenExactlyInputs == pipeEnded => written = inputs

(***************************************************************************)
(* C2: a capture whose captureFrame calls all return true and that has run *)
(* to completion has called captureFrame exactly config.frameCount times   *)
(* and has notified screencastCompleted exactly once. (In src/index.cjs    *)
(* the frames before config.startTime go to skipFrame and are counted in   *)
(* skipCount, not here.)                                                   *)
(***************************************************************************)
C2_CapturesExactlyFrameCount ==
    /\ loopPc[1] = "done" => captureCount = config.frameCount /\ completedCount = 1
    /\ completedCount <= 1

(***************************************************************************)
(* C11: after each #seekTimeActions(t), if some registered key k has       *)
(* k <= t then the numerically smallest such key was selected, removed     *)
(* from the map and invoked; if none has, nothing was invoked.             *)
(***************************************************************************)
C11_SmallestDueKeyInvoked ==
    taLast.called =>
        LET due == {k \in taLast.keys : k <= taLast.t}
        IN IF due = {}
           THEN taLast.picked = Undef
           ELSE /\ taLast.picked \in due
                /\ \A k \in due : taLast.picked <= k

(***************************************************************************)
(* C12: each registered time action is invoked at most once during a       *)
(* capture.                                                                *)
(***************************************************************************)
C12_InvokedAtMostOnce ==
    \A i, h \in DOMAIN taInvoked : taInvoked[i] = taInvoked[h] => i = h

\* two registered actions have been invoked, on two ticks
C12_TwoInvoked == Len(taInvoked) >= 2

(***************************************************************************)
(* C13: once the page-level abort() has been called on a started loop,     *)
(* stopFlag is set, no further tick begins its work (the loop notifies     *)
(* screencastCompleted instead) and no frame is requested after the        *)
(* notification.                                                           *)
(***************************************************************************)
C13_AbortStopsLoop ==
    /\ [](abortCalled => stopFlag)
    /\ [][abortCalled /\ loopPc[1] # "media" => loopPc'[1] # "media"]_vars
    /\ [][completedCount >= 1 => captureCount' = captureCount]_vars

(***************************************************************************)
(* C14: when beginFrame does not answer in time during captureFrame, the   *)
(* page becomes UNAVAILABLED, captureFrame returns false, and the loop     *)
(* stops: it sets stopFlag and, once failed, requests no further frame.    *)
(***************************************************************************)
C14_CaptureTimeoutStopsLoop ==
    /\ [][loopPc[1] = "capture" /\ timedOut' # timedOut =>
               /\ hostState' = "UNAVAILABLED"
               /\ stopFlag'
               /\ loopPc'[1] = "failed"]_vars
    /\ [][loopPc[1] = "failed" =>
               captureCount' = captureCount /\ skipCount' = skipCount]_vars

\* beginFrame has timed out on the second frame of a capture
C14_TimedOutOnLaterFrame ==
    /\ loopPc[1] = "failed"
    /\ "beginFrame" \in timedOut
    /\ hostState = "UNAVAILABLED"
    /\ captureCount >= 2

(***************************************************************************)
(* C15: whenever beginFrame or a VideoCanvas acquireFrame has timed out    *)
(* during a capture, the page is UNAVAILABLED and the synthesizer has      *)
(* emitted an error event.                                                 *)
(***************************************************************************)
C15_TimeoutFatalAndReported ==
    timedOut # {} => hostState = "UNAVAILABLED" /\ pageErrors >= 1

(***************************************************************************)
(* C16: a task given retryFetchs >= 0 is started at most retryFetchs + 1   *)
(* times, each restart comes no earlier than retryDelay after the          *)
(* preceding failure, and after the last allowed failure it has emitted    *)
(* error exactly once and, once the scheduler has passed, is out of the    *)
(* active set.                                                             *)
(***************************************************************************)
C16_RetriesBounded ==
    /\ IsNumber(task.retryFetchs) => task.starts <= task.retryFetchs + 1
    /\ IsNumber(task.failedAt) => task.startedAt >= task.failedAt + task.retryDelay
    /\ task.emitted <= 1
    /\ task.emitted = 1 <=> task.errors > task.retryCount
    /\ ~task.active /\ task.created =>
           task.state = "COMPLETED" \/ task.emitted = 1

(***************************************************************************)
(* C17: once the attempts of a fetch are over, the promise the caller      *)
(* holds is resolved to null if the last status was 4xx and rejected if it *)
(* was 5xx; there are at most retryFetchs + 1 attempts, each retry at      *)
(* least retryDelay after the failure before it.                           *)
(***************************************************************************)
C17_FetchOutcome ==
    /\ fetchCall.phase = "settled" /\ fetchCall.status \in 400..499 =>
           fetchCall.promises[1] = "null"
    /\ fetchCall.phase = "settled" /\ fetchCall.status >= 500 =>
           fetchCall.promises[1] = "rejected"
    /\ Len(fetchCall.promises) <= fetchCall.retryFetchs + 1
    /\ IsNumber(fetchCall.failedAt) /\ fetchCall.phase # "backoff" =>
           fetchCall.startedAt >= fetchCall.failedAt + fetchCall.retryDelay

(***************************************************************************)
(* C18: the output duration of the ChunkSynthesizer after its chunks have  *)
(* been input is the sum of the chunk durations minus the transition       *)
(* durations of the chunks that have a chunk after them.                   *)
(***************************************************************************)
RECURSIVE SumDurations(_, _)
SumDurations(cs, k) == IF k = 0 THEN 0 ELSE SumDurations(cs, k - 1) + cs[k].duration

RECURSIVE SumTransitions(_, _)
SumTransitions(cs, k) ==
    IF k <= 0 THEN 0
    ELSE SumTransitions(cs, k - 1) + (IF cs[k].transition = Undef THEN 0
                                      ELSE cs[k].transition)

C18_TotalDuration ==
    getOutputDuration(chunkSynth.duration, 0, ChunkFps) =
        SumDurations(chunks, Len(chunks)) - SumTransitions(chunks, Len(chunks) - 1)

(***************************************************************************)
(* C19: every audio of chunk k in the composite, attached before start()   *)
(* or emitted while the chunk renders, starts at its chunk-local start     *)
(* time plus the sum of duration - transition.duration over the chunks     *)
(* before k.                                                               *)
(***************************************************************************)
C19_AudioOffsetOnce ==
    \A i \in DOMAIN chunkSynth.audios :
        LET a == chunkSynth.audios[i]
        IN a.startTime = a.local + SumDurations(chunks, a.chunk - 1)
                                 - SumTransitions(chunks, a.chunk - 1)

(***************************************************************************)
(* C20: no chunk sequence with a transition longer than one of the two     *)
(* chunks at its boundary gets as far as start() rendering it.             *)
(***************************************************************************)
C20_LongTransitionRejected ==
    chunkSynth.started =>
        \A k \in 1..(Len(chunks) - 1) :
            chunks[k].transition # Undef =>
                /\ chunks[k].transition <= chunks[k].duration
                /\ chunks[k].transition <= chunks[k + 1].duration

(***************************************************************************)
(* C21: a request handled while Page.state is CAPTURING that is a          *)
(* navigation request of the main frame is aborted: it is neither          *)
(* continued nor answered.                                                 *)
(***************************************************************************)
C21_NavigationAborted ==
    lastRequest.handled /\ lastRequest.state = "CAPTURING"
        /\ lastRequest.request.nav /\ lastRequest.request.main
    => lastRequest.outcome = "aborted"

\* a main-frame navigation was aborted in a capture resumed after a pause,
\* one that the preprocess route would otherwise have answered
C21_AbortedWhileCapturing ==
    /\ lastRequest.handled
    /\ lastRequest.state = "CAPTURING"
    /\ lastRequest.request.nav /\ lastRequest.request.main
    /\ lastRequest.request.route = "preprocess"
    /\ lastRequest.outcome = "aborted"
    /\ hostState = "PAUSED"

(***************************************************************************)
(* C22: every id the rewritten setTimeout and setInterval have returned is *)
(* strictly negative, differs from every id returned before it, and is not *)
(* the id of a real timer of the page.                                     *)
(***************************************************************************)
C22_VirtualIdsNegativeDistinct ==
    \A i \in DOMAIN issuedIds :
        /\ issuedIds[i] < 0
        /\ issuedIds[i] \notin RealTimerIds
        /\ \A j \in 1..(i - 1) : issuedIds[j] # issuedIds[i]

(***************************************************************************)
(* C23: the virtual clock is moved only by the capture loop, once per tick *)
(* and by frameInterval = 1000/fps, never backwards; when a tick begins    *)
(* after i earlier ticks (each of which asked the host for a frame or a    *)
(* skip) the clock reads i * (1000/fps).                                   *)
(***************************************************************************)
C23_ClockAdvancesPerTick ==
    /\ [](loopPc[1] \in {"media", "seekCSS", "seekTA"}
            => currentTime = (captureCount + skipCount) * (1000 \div config.fps))
    /\ [][currentTime' # currentTime
            => /\ loopPc[1] = "seekTA" /\ loopPc'[1] \in {"capture", "skip"}
               /\ currentTime' = currentTime + (1000 \div config.fps)
               /\ currentTime' > currentTime]_vars

\* the third tick begins, after one skipped and one captured frame
C23_ThirdTickBegins ==
    /\ loopPc[1] = "media"
    /\ skipCount = 1 /\ captureCount = 1
    /\ currentTime = 2 * frameInterval
    /\ frameInterval > 0

(***************************************************************************)
(* C25: an acquirePage() that leaves the browser saturated keeps it out of *)
(* the browser pool and records it in #checkMap; a saturated browser is    *)
(* never available; once a recorded browser is below numPageMax it is      *)
(* eventually back in the browser pool with its record gone, and it is     *)
(* never in the browser pool twice.                                        *)
(***************************************************************************)
C25_DeferredRelease ==
    /\ [][\A b \in Browsers :
            pageLoans'[b] # pageLoans[b] /\ pageLoans[b] \subseteq pageLoans'[b]
                /\ isBusy(pageLoans'[b])
            => b \in checkMap'
               /\ \A i \in DOMAIN browserAvail' : browserAvail'[i] # b]_vars
    /\ [](\A i \in DOMAIN browserAvail :
            /\ ~isBusy(pageLoans[browserAvail[i]])
            /\ browserAvail[i] \notin checkMap
            /\ \A k \in DOMAIN browserAvail : browserAvail[k] = browserAvail[i] => k = i)
    /\ \A b \in Browsers :
           (b \in checkMap /\ ~isBusy(pageLoans[b]))
           ~> (b \notin checkMap /\ \E i \in DOMAIN browserAvail : browserAvail[i] = b)

\* a browser whose two pages were on loan together is available again, both
\* pages returned
C25_ReleasedAfterSaturation ==
    \E b \in Browsers :
        /\ Len(pageAvail[b]) = numPageMax
        /\ pageLoans[b] = {}
        /\ checkMap = {}
        /\ \E i \in DOMAIN browserAvail : browserAvail[i] = b

(***************************************************************************)
(* C24: every page created by a browser whose state is CLOSED is CLOSED,   *)
(* the pages idle in its page pool and the pages a job has borrowed.       *)
(***************************************************************************)
C24_ClosedBrowserPagesClosed ==
    \A b \in closedBrowsers : \A pg \in Pages :
        pg[1] = b /\ pageState[pg] # "none" => pageState[pg] = "CLOSED"

(***************************************************************************)
(* C26: an acquirePage() call during which the creation of the browser or  *)
(* of the page it waits for has failed is rejected (and has left the       *)
(* "acquirePage" lock); it is not left pending.                            *)
(***************************************************************************)
CreationFailedFor == {j \in Jobs : jobPc[j] \in {"rejected", "hung"}}

C26_CreationFailureRejects ==
    \A j \in CreationFailedFor :
        /\ jobPc[j] = "rejected"
        /\ \A i \in DOMAIN lockQueue : lockQueue[i] # j

(***************************************************************************)
(* C30: once an acquirePage() has been rejected because                    *)
(* browser.acquirePage() failed, the browser borrowed for the attempt is   *)
(* not lost to the browser pool: it is available there, or it is recorded  *)
(* in #checkMap to be released.                                            *)
(***************************************************************************)
C30_FailedAcquireReleasesBrowser ==
    \A j \in Jobs :
        jobPc[j] = "rejected" /\ jobPage[j][1] \in Browsers
        => \/ \E i \in DOMAIN browserAvail : browserAvail[i] = jobPage[j][1]
           \/ jobPage[j][1] \in checkMap

\* what unpacking gave is the data object that was packed: the same keys
\* in the same order, every field of the same kind with the same content
RoundTrips ==
    /\ ~packRun.out.thrown
    /\ packRun.out.obj = packRun.data

\* a field that is not a buffer and whose JSON value is an array starting
\* with the string "buffer"
TaggedArrayField(data) ==
    \E k \in DOMAIN data :
        /\ data[k].kind = "array"
        /\ data[k].items # <<>>
        /\ data[k].items[1] = BufferTag

(***************************************************************************)
(* C27 as stated. For every data object whose fields are byte buffers or   *)
(* JSON values, unpacking the result of packing it yields an object with   *)
(* the same keys, every buffer field with exactly the original bytes and   *)
(* every other field with the original JSON value.                         *)
(***************************************************************************)
C27_RoundTripAnyObject ==
    packRun.stage = "unpacked" => RoundTrips

(***************************************************************************)
(* C27, amended. For every data object whose fields are byte buffers or    *)
(* JSON values, none of them an array whose first element is the string    *)
(* "buffer", unpacking the result of packing it yields an object with the  *)
(* same keys, every buffer field with exactly the original bytes and every *)
(* other field with the original JSON value.                               *)
(***************************************************************************)
C27_RoundTripUntaggedObject ==
    (packRun.stage = "unpacked" /\ ~TaggedArrayField(packRun.data))
        => RoundTrips

\* an object of two buffers, the first holding a "!" byte, and an array,
\* has been packed and unpacked
C27_TwoBuffersUnpacked ==
    /\ packRun.stage = "unpacked"
    /\ Len(packRun.data) = 3
    /\ packRun.data[1] = [kind |-> "buffer", items |-> <<Bang, 49>>]
    /\ packRun.data[2] = [kind |-> "array",
                          items |-> <<NumberToken(1), NumberToken(2)>>]
    /\ packRun.data[3] = [kind |-> "buffer", items |-> <<7>>]
    /\ packRun.out.obj[3].items = <<7>>

(***************************************************************************)
(* C28. Every task added to the Preprocessor (download or process) is      *)
(* eventually moved into the active set and started, including tasks added *)
(* while the active set already holds parallelDownloads (respectively      *)
(* parallelProcess) tasks; no added task is lost.                          *)
(***************************************************************************)
C28_AddedTaskStarts ==
    \A t \in TaskIds : (pre.state[t] # "none") ~> (t \in pre.started)

(***************************************************************************)
(* C29. Every page acquired by a SingleVideo or ChunkVideo synthesis is    *)
(* eventually released back to its browser's page pool, whether the        *)
(* capture completes normally, is aborted, or a captureFrame call fails or *)
(* times out.                                                              *)
(***************************************************************************)
C29_AcquiredPageReleased ==
    (synthesizePc = "acquired") ~> (synthesizePc = "released")

\* the chains of nextFrame that are in the middle of a tick
RunningLoops ==
    {l \in Loops : loopPc[l] \in {"media", "seekCSS", "seekTA", "capture", "skip"}}

(***************************************************************************)
(* C31. At most one capture loop runs per page, however many times         *)
(* captureCtx.start() is called (before or after ready(), and by the       *)
(* host's autostart); the loop begins only after ready(); and when a tick  *)
(* begins the clock has advanced by exactly one frameInterval per frame    *)
(* requested so far.                                                       *)
(***************************************************************************)
C31_SingleLoop ==
    /\ Cardinality(RunningLoops) <= 1
    /\ \A l \in Loops : loopPc[l] # "none" => readyFlag
    /\ \A l \in Loops :
           loopPc[l] \in {"media", "seekCSS", "seekTA"}
               => currentTime = (captureCount + skipCount) * frameInterval

\* the promise that the call of the caller returned
CallerPromise ==
    IF fetchCall.promises = <<>> THEN "none" ELSE fetchCall.promises[1]

(***************************************************************************)
(* C32. Every call to the in-page fetch helper eventually settles: the     *)
(* promise it returned to its caller is resolved or rejected, also when an *)
(* early attempt fails and a later attempt succeeds.                       *)
(***************************************************************************)
C32_FetchSettles ==
    (fetchCall.phase # "idle") ~> (CallerPromise # "pending")

\* the tasks of a kind whose work is under way
ExecutingTasks(kind) ==
    {t \in TaskIds : pre.kind[t] = kind /\ pre.state[t] = "EXECUTING"}

(***************************************************************************)
(* C33. At every moment the active download set holds at most              *)
(* parallelDownloads tasks and the active process set at most              *)
(* parallelProcess tasks, so no more than that many tasks of each kind     *)
(* execute at the same time.                                               *)
(***************************************************************************)
C33_ActiveSetsBounded ==
    \A kind \in TaskKinds :
        /\ Len(pre.active[kind]) <= parallelOf(kind)
        /\ Cardinality(ExecutingTasks(kind)) <= parallelOf(kind)

\* the download set is full and executing while a further download task
\* has been added and has not started
C33_FullWhileMoreAdded ==
    /\ Len(pre.active["download"]) = parallelDownloads
    /\ Cardinality(ExecutingTasks("download")) = parallelDownloads
    /\ \E t \in TaskIds : pre.kind[t] = "download" /\ pre.state[t] = "WAITING"

\* a load or a seek of the tick of the loop is still awaited
MediaPending ==
    \E i \in DOMAIN mediaWait[1] : mediaWait[1][i].kind # "none"

(***************************************************************************)
(* C34. Within a tick, all media scheduling steps (destroy, load, seek) of *)
(* that tick have completed before captureFrame or skipFrame of that tick  *)
(* is requested, and no media step of the next tick starts before the      *)
(* frame request of the current tick has returned. (A seek that rejects    *)
(* ends the chain: the other medias of that tick still settle, and no      *)
(* frame is requested any more.)                                           *)
(***************************************************************************)
C34_MediaBeforeFrame ==
    /\ [](loopPc[1] \in {"seekCSS", "seekTA", "capture", "skip"} => ~MediaPending)
    /\ [][mediaWait' # mediaWait
            => \/ loopPc[1] = "media"
               \/ loopPc[1] \in {"none", "capture", "skip"} /\ loopPc'[1] = "media"
               \/ loopPc[1] = "dead" /\ loopPc'[1] = "dead"]_vars
    /\ [][loopPc'[1] \in {"capture", "skip"} /\ loopPc[1] \notin {"capture", "skip"}
            => ~MediaPending /\ ~MediaPending']_vars

\* the frame of the second tick is requested after a media was sought in it
C34_FrameAfterSeek ==
    /\ loopPc[1] = "capture"
    /\ captureCount + skipCount >= 2
    /\ \E i \in DOMAIN seekLog : seekLog[i].kind = "seek"
    /\ \E i \in DOMAIN dispatchMedias : dispatchMedias[i].frameIndex # Undef

(***************************************************************************)
(* C35. A virtual interval with period p that was registered, and possibly *)
(* already fired by the pre-start watchdog, before the capture loop        *)
(* started keeps firing after the loop starts, within p + frameInterval of *)
(* virtual time and thereafter once every period: when a tick at virtual   *)
(* time c has dispatched the timers, every interval has just been          *)
(* dispatched or was last dispatched (or registered) at a virtual time t   *)
(* with t <= c and c - t < p.                                              *)
(***************************************************************************)
C35_IntervalKeepsFiring ==
    loopPc[1] \in {"capture", "skip"}
        => \A i \in DOMAIN intervalCallbacks :
               LET e == intervalCallbacks[i]
               IN /\ IsNumber(e.timestamp)
                  /\ e.timestamp <= currentTime
                  /\ e.timestamp = currentTime \/ currentTime - e.timestamp < e.delay

(***************************************************************************)
(* C36. Every registered timeAction whose key k (including k = 0) is not   *)
(* greater than the virtual time of the last tick is eventually invoked,   *)
(* on a tick whose virtual time is at least k: once the capture has        *)
(* completed, no such key is left in timeActions, and the keys invoked     *)
(* were due on the last tick.                                              *)
(***************************************************************************)
C36_DueActionsInvoked ==
    (loopPc[1] = "done" /\ taLast.called)
        => /\ \A k \in timeActions : k > taLast.t
           /\ \A i \in DOMAIN taInvoked : taInvoked[i] <= taLast.t

\* the cumulative effective duration (ms) up to and including chunk i
CumulativeEffective(cs, i) == SumDurations(cs, i) - SumTransitions(cs, i)

\* the boundaries whose source chunk has a transition
TransitionBoundaries ==
    {i \in 1..(Len(chunks) - 1) : chunks[i].transition # Undef}

\* the filters are those of the boundaries with a transition, in order
OneFilterPerBoundary ==
    /\ {spliceFilters.filters[n].source : n \in DOMAIN spliceFilters.filters}
           = TransitionBoundaries
    /\ Len(spliceFilters.filters) = Cardinality(TransitionBoundaries)

(***************************************************************************)
(* C37 as stated. In the final splice, for every boundary whose source     *)
(* chunk has a transition, the Xfade filter's offset equals the cumulative *)
(* effective duration up to and including the source chunk and its         *)
(* duration equals the source chunk's transition.duration (the filter      *)
(* carries seconds: hundredths times 10 are the milliseconds).             *)
(***************************************************************************)
C37_XfadeExact ==
    spliceFilters.built
        => /\ OneFilterPerBoundary
           /\ \A n \in DOMAIN spliceFilters.filters :
                  LET f == spliceFilters.filters[n]
                  IN /\ f.offset * 10 = CumulativeEffective(chunks, f.source)
                     /\ f.duration * 10 = chunks[f.source].transition

(***************************************************************************)
(* C37, amended. In the final splice, for every boundary whose source      *)
(* chunk has a transition, the Xfade filter's offset is the cumulative     *)
(* effective duration up to and including the source chunk, and its        *)
(* duration the source chunk's transition.duration, both in seconds cut to *)
(* two decimals: never above the exact value and at most one hundredth of  *)
(* a second below it.                                                      *)
(***************************************************************************)
C37_XfadeHundredths ==
    spliceFilters.built
        => /\ OneFilterPerBoundary
           /\ \A n \in DOMAIN spliceFilters.filters :
                  LET f == spliceFilters.filters[n]
                      cumulative == CumulativeEffective(chunks, f.source)
                  IN /\ f.offset * 10 <= cumulative
                     /\ cumulative <= f.offset * 10 + 10
                     /\ f.duration * 10 <= chunks[f.source].transition
                     /\ chunks[f.source].transition <= f.duration * 10 + 10

\* a splice of three chunks with two transitions, one of them after a chunk
\* that has none of its own, and durations that are no multiple of 10 ms
C37_TwoXfades ==
    /\ spliceFilters.built
    /\ Len(chunks) = 3
    /\ Len(spliceFilters.filters) = 2
    /\ chunks[1].duration = 1005
    /\ chunks[1].transition = 255
    /\ chunks[2].transition = 500
    /\ spliceFilters.filters[2].offset = 125

(***************************************************************************)
(* C38. When startScreencast is given frameCount without duration, the     *)
(* duration of the config it sends is in milliseconds and agrees with the  *)
(* frame count: durationToFrameCount of that duration at the same fps is   *)
(* the frame count again.                                                  *)
(***************************************************************************)
C38_DerivedDurationConsistent ==
    (/\ screencastOptions.phase = "sent"
     /\ ~IsNumber(screencastOptions.duration)
     /\ IsNumber(screencastOptions.frameCount))
        => durationToFrameCountOf(screencastOptions.config.duration,
                                  screencastOptions.fps)
              = screencastOptions.frameCount

(***************************************************************************)
(* C3. At every moment no browser has more than numPageMax pages on loan,  *)
(* there are at most numBrowserMax browsers, a browser the browser pool    *)
(* can hand out still has a free page, and so at most numBrowserMax x      *)
(* numPageMax jobs hold a borrowed page at the same time. With 2 browsers  *)
(* of 2 pages and 5 jobs the peak is 4 holders, the 5th job waiting inside *)
(* acquirePage().                                                          *)
(***************************************************************************)
Holders == {j \in Jobs : jobPc[j] = "holding" /\ jobPage[j] \in pageLoans[jobPage[j][1]]}

C3_PoolBounds ==
    /\ \A b \in Browsers : Cardinality(pageLoans[b]) <= numPageMax
    /\ browserCount <= numBrowserMax
    /\ \A i \in DOMAIN browserAvail :
           Cardinality(pageLoans[browserAvail[i]]) < numPageMax
    /\ Cardinality(Holders) <= numBrowserMax * numPageMax

\* both tiers saturated by jobs, one more job waiting inside acquirePage()
C3_PeakWithWaiter ==
    /\ Cardinality(Holders) = numBrowserMax * numPageMax
    /\ lockQueue # <<>>
    /\ ~CanAcquireBrowser

(***************************************************************************)
(* C4. When every job that obtains a page releases it and no tab fails,    *)
(* every call of acquirePage() returns a page: a job queued in             *)
(* acquirePage() eventually holds one, the job that waited with both       *)
(* browsers saturated included.                                            *)
(***************************************************************************)
C4_AcquireReturns ==
    \A j \in Jobs : (jobPc[j] = "queued") ~> (jobPc[j] = "holding")

\* a job that waited while both browsers were saturated has been served,
\* and all jobs have completed
C4_WaiterServed ==
    /\ \E j \in waited : jobPc[j] = "done"
    /\ \A j \in Jobs : jobPc[j] = "done"

(***************************************************************************)
(* C5. Every page acquirePage() returns is READY at the moment it is       *)
(* returned, whatever happened to it before.                               *)
(***************************************************************************)
C5_AcquiredPageReady ==
    \A j \in Jobs : acquiredState[j] \in {"none", "READY"}

(***************************************************************************)
(* C6. UNAVAILABLED is terminal: no step takes a page from UNAVAILABLED    *)
(* to READY, CAPTURING or PAUSED.                                          *)
(***************************************************************************)
C6_UnavailableTerminal ==
    [][\A pg \in Pages :
           pageState[pg] = "UNAVAILABLED" =>
               pageState'[pg] \notin {"READY", "CAPTURING", "PAUSED"}]_vars

(***************************************************************************)
(* C7: once a tick has awaited its medias, every media m the tick mapped   *)
(* over that is eligible at the tick's virtual time t (startTime <= t <    *)
(* endTime) either had seek(t - startTime - offsetTime) invoked in this    *)
(* tick, offsetTime being the media's at the call, or its load() has been  *)
(* attempted and has failed; a media whose load() has failed is never      *)
(* sought again.                                                           *)
(***************************************************************************)
C7_EligibleMediaSoughtOrFailed ==
    /\ loopPc[1] \in {"seekCSS", "seekTA"} =>
          \A i \in DOMAIN seekLog :
              (dispatchMedias[i].startTime <= currentTime
                   /\ currentTime < dispatchMedias[i].endTime) =>
                  \/ /\ seekLog[i].kind = "seek"
                     /\ seekLog[i].arg =
                            currentTime - dispatchMedias[i].startTime - seekLog[i].off
                  \/ i \in loadFailed
    /\ \A i \in loadFailed : seekLog[i].kind \in {"loadFailed", "skip"}

\* C7 witness: a looping media that has played one loop is sought again
C7_SoughtAfterLoop ==
    /\ loopPc[1] = "seekCSS"
    /\ \E i \in DOMAIN seekLog :
          /\ seekLog[i].kind = "seek"
          /\ seekLog[i].off > 0
          /\ dispatchMedias[i].startTime <= currentTime
          /\ currentTime < dispatchMedias[i].endTime

(***************************************************************************)
(* C8: a virtual timeout registered at virtual time s with delay d is      *)
(* dispatched at most once and only by a dispatch whose clock value c      *)
(* satisfies c >= s + d, whether the dispatch comes from init(), from the  *)
(* watchdog or from the capture loop; a virtual interval with period p is  *)
(* dispatched only when c >= (previous dispatch or registration) + p.      *)
(* `due` is s + d as the dispatching code computed it; a dispatch that was *)
(* given no clock value is judged by the virtual time it ran at.           *)
(***************************************************************************)
C8_DispatchedOnlyWhenDue ==
    /\ \A i \in DOMAIN lastBatch :
          /\ IsNumber(lastBatch[i].due)
          /\ (IF IsNumber(lastBatch[i].clock) THEN lastBatch[i].clock ELSE currentTime)
                 >= lastBatch[i].due
    /\ \A i, j \in DOMAIN timeoutDispatches :
          i # j => timeoutDispatches[i] # timeoutDispatches[j]

(***************************************************************************)
(* C9: in every dispatch for one clock value, the due intervals are posted *)
(* before the due timeouts, and within each category in insertion order    *)
(* (ids are handed out downwards, so insertion order is descending id).    *)
(***************************************************************************)
C9_IntervalsBeforeTimeouts ==
    \A i, j \in DOMAIN lastBatch :
        i < j =>
            /\ ~(lastBatch[i].kind = "timeout" /\ lastBatch[j].kind = "interval")
            /\ lastBatch[i].kind = lastBatch[j].kind => lastBatch[i].id > lastBatch[j].id

(***************************************************************************)
(* C10: once clearTimeout(id) / clearInterval(id) has been called with the *)
(* negative id of a timeout / interval, the callback registered under id   *)
(* is never invoked later.                                                 *)
(***************************************************************************)
C10_ClearedNeverInvoked == invokedAfterClear = {}

(***************************************************************************)
(* C39, as the specification states it. When the download tasks of one URL *)
(* all run without ignoreCache, the resource is fetched from the network   *)
(* at most once.                                                           *)
(***************************************************************************)
NoIgnoreCache == \A t \in DownloadTasks : ~downloads.ignoreCache[t]

C39_FetchedAtMostOnce == NoIgnoreCache => downloads.fetches <= 1

(***************************************************************************)
(* C39, amended. When the download tasks of one URL all run without        *)
(* ignoreCache, one task at a time holds the lock of the URL, at most one  *)
(* fetch succeeds, no fetch begins once the cached file exists, every      *)
(* fetch but the last one has failed, and every completed task has the     *)
(* same file path.                                                         *)
(***************************************************************************)
C39_OneSuccessfulFetch ==
    NoIgnoreCache
        => /\ downloads.fetched <= 1
           /\ downloads.fetchesOfCached = 0
           /\ downloads.fileExists <=> (downloads.fetched = 1)
           /\ downloads.fileExists => downloads.step # "download"
           /\ \A t \in DownloadTasks :
                  /\ downloads.state[t] = "COMPLETED" => downloads.result[t] = FilePath
                  /\ downloads.state[t] = "COMPLETED" => downloads.fileExists
           /\ \A i \in DOMAIN downloads.queue :
                  downloads.holder # 0 /\ downloads.queue[i] # downloads.holder

\* three tasks of the URL completed, none ignoring the cache, after a first
\* download failed and was retried: two fetches, one of them successful
C39_AllCompletedOneFetch ==
    /\ NoIgnoreCache
    /\ \A t \in DownloadTasks : downloads.state[t] = "COMPLETED"
    /\ downloads.fetches = 2
    /\ downloads.fetched = 1

(***************************************************************************)
(* C40, as the specification states it. When the decoder outputs the frame *)
(* of index d: if a request for d is parked it is resolved and no request  *)
(* is parked any more; if a request for a later index is parked the frame  *)
(* is closed and the frame buffer has no entry for it; otherwise the frame *)
(* is stored open.  No acquireFrame returns a closed frame, and a request  *)
(* is parked only while seek() waits for it.                               *)
(***************************************************************************)
Emitted == canvas'.decodedFrameIndex = canvas.decodedFrameIndex + 1
Parked == canvas.waitFrameCallback

EmitCases(older) ==
    LET d == canvas.decodedFrameIndex
        w == canvas.waitFrameIndex
    IN Emitted =>
          /\ (Parked /\ d = w)
                => /\ canvas'.frames[d] = "open"
                   /\ ~canvas'.waitFrameCallback
                   /\ canvas'.seeking = "resolved"
          /\ (w # Undef /\ d < w) => canvas'.frames[d] = older
          /\ (w = Undef \/ d > w) => canvas'.frames[d] = "open"
          /\ \A i \in FrameIndexes \ {d} : canvas'.frames[i] = canvas.frames[i]

AcquiredOpen ==
    \A n \in DOMAIN canvas.acquired : canvas.acquired[n].frame = "open"

OneParked == Parked <=> canvas.seeking = "parked"

C40_OlderFrameNotRetained ==
    [][EmitCases("none")]_vars /\ [](AcquiredOpen /\ OneParked)

(***************************************************************************)
(* C40, amended. The same, but a frame older than the parked request stays *)
(* in the frame buffer as a closed frame, until the next request that      *)
(* parks clears the buffer; it is older than the index asked for last,    *)
(* the indexes asked for only grow, and so no acquireFrame returns it.     *)
(***************************************************************************)
C40_OlderFrameClosed ==
    /\ [][EmitCases("closed")]_vars
    /\ [](AcquiredOpen /\ OneParked)
    /\ [](\A i \in FrameIndexes :
             canvas.frames[i] = "closed"
                => canvas.asked # Undef /\ i < canvas.asked)

\* frame 0 was closed under a parked request for frame 1 and is still in the
\* buffer when that request has been served with frame 1
C40_ClosedFrameKept ==
    /\ canvas.frames[0] = "closed"
    /\ canvas.acquired = <<[index |-> 1, frame |-> "open"]>>
    /\ canvas.seeking = "no"

====
